---- MODULE Spec2Model ----
(***************************************************************************)
(* A model of the survhive optimisation core: the Breslow and Efron        *)
(* partial-likelihood recursions (loss.py), the proximal operator family   *)
(* (proximal_operators.py), the estimator wrapper (_base.py) and the       *)
(* cross-validation code (_utils_/cv.py): the alpha grid, the              *)
(* regularisation path and CrossValidation.fit.                            *)
(*                                                                         *)
(* Arithmetic is exact.  Rationals are reduced pairs <<num, den>>.  A real *)
(* of the form ln(q)/n, q a positive rational, is the record               *)
(* [q |-> q, n |-> n]; np.exp and log act on that representation.          *)
(* Floating-point rounding is outside the model.                           *)
(***************************************************************************)
EXTENDS Integers, Sequences, FiniteSets

VARIABLES
    linear_predictor,   \* loss.py: argument of the likelihood (seq of log-numbers)
    time,               \* loss.py: argument: ascending times
    event,              \* loss.py: argument: event indicators
    loss_breslow,       \* value returned by breslow_likelihood, or None
    loss_efron,         \* value returned by efron_likelihood, or None
    coef,               \* proximal_operators.py: the caller's coefficient array
    coef_at_call,       \* contents of that array when the operator was called
    operator,           \* the proximal operator object (its attributes)
    operator_at_call,   \* its attributes when it was called
    prox_result,        \* outcome of operator(coef), or None before the call
    thresh_result,      \* outcome of the _mcp_thresh/_scad_thresh call made inside
    X,                  \* _base.py: rows of the design matrix
    y,                  \* _base.py: signed survival target (negative = censored)
    sample_weight,      \* _base.py: argument of score, None by default
    estimator,          \* the fitted model: coef_, its loss, its hazard method
    score_result,       \* score(X, y, sample_weight): the loss call and the value
    row_order,          \* the permutation applied to the rows of X and y
    score_permuted,     \* score on the permuted rows
    query_time,         \* argument time of predict_survival_function
    surv_result,        \* outcome of predict_survival_function(X, query_time)
    gradient,           \* cv.py: per-sample gradient handed to _alpha_grid
    hessian,            \* cv.py: per-sample hessian handed to _alpha_grid
    X_grid,             \* cv.py: design matrix handed to _alpha_grid
    n_alphas,           \* cv.py: requested number of alphas
    alphas,             \* cv.py: the user-supplied alphas, or None
    path_alphas,        \* the alpha sequence the path solver iterates over
    cv,                 \* CrossValidation(cv=...): the constructor argument
    l1_ratios,          \* CrossValidation(l1_ratios=...)
    n_jobs,             \* CrossValidation(n_jobs=...)
    cv_score_method,    \* CrossValidation(cv_score_method=...)
    y_length,           \* len(y) of fit(X, y); X has Len(X_grid) rows
    cross_validation,   \* the CrossValidation object: its attributes
    model,              \* the estimator of self._get_estimator(), shared by the tasks
    tasks,              \* the (l1_ratio, fold) calls of alpha_path_eta, in order
    fit_pc,             \* position of CrossValidation.fit
    fit_outcome,        \* how the constructor or fit ended, None while running
    gradient_calls,     \* number of model.gradient evaluations made by fit
    n_irls_iter,        \* regularisation_path(n_irls_iter=...)
    path_pc,            \* position of regularisation_path
    path_i,             \* index i of the alpha being processed
    path_q,             \* index q of the IRLS iteration
    steps,              \* the steps taken so far in the current IRLS iteration
    working_set,        \* strong_screener.working_set
    strong_set,         \* strong_screener.strong_set
    kkt_violated,       \* the violators reported by the last KKT check
    beta_previous,      \* coefficients carried between iterations
    beta_new,           \* coefficients of the last fit assigned to beta_new
    optimiser,          \* the ElasticNet object: alpha, and the fit coef_ comes from
    eta_previous,       \* linear predictor carried between iterations
    eta_final,          \* linear predictor of the last fit assigned to eta_final
    eta_new,            \* linear predictor handed to the KKT checks
    kkt_eta,            \* the eta argument of the last KKT check
    checked,            \* KKT checks passed since the working set last changed
    coefs,              \* columns of coefs stored so far
    train_eta,          \* columns of train_eta stored so far
    test_eta,           \* columns of test_eta stored so far
    X_irls,             \* the weighted design matrix of the IRLS step
    y_irls,             \* the weighted pseudo-response of the IRLS step
    hessian_mask_old,   \* the mask of the previous IRLS step
    weights_old,        \* the weights behind weights_sqrt_matrix_old
    gradient_at,        \* model.gradient: its value at the predictors seen
    irls_pc,            \* position within the IRLS step
    irls_n,             \* number of IRLS steps completed
    irls_outcome        \* how the IRLS steps ended, None while running

lossVars == <<linear_predictor, time, event, loss_breslow, loss_efron>>
proxVars == <<coef, coef_at_call, operator, operator_at_call, prox_result,
              thresh_result>>
baseVars == <<X, y, sample_weight, estimator, score_result, row_order,
              score_permuted, query_time, surv_result>>
gridVars == <<gradient, hessian, X_grid, n_alphas, alphas, path_alphas>>
fitVars == <<cv, l1_ratios, n_jobs, cv_score_method, y_length, cross_validation,
             model, tasks, fit_pc, fit_outcome, gradient_calls>>
pathVars == <<n_irls_iter, path_pc, path_i, path_q, steps, working_set, strong_set,
              kkt_violated, beta_previous, beta_new, optimiser, eta_previous,
              eta_final, eta_new, kkt_eta, checked, coefs, train_eta, test_eta>>
irlsVars == <<X_irls, y_irls, hessian_mask_old, weights_old, gradient_at, irls_pc,
              irls_n, irls_outcome>>
cvVars == <<gridVars, fitVars, pathVars, irlsVars>>
vars == <<lossVars, proxVars, baseVars, cvVars>>

\* An absent value (Python None) is the empty tuple; a present value v is <<v>>.
None == <<>>
Some(v) == <<v>>

\* ---------------------------------------------------------------- bounds
MaxSamples == 3
MaxTime == 3
MaxFeatures == 2
MaxCoef == 3
MaxThreshold == 3
MaxRows == 3
MaxQueryTimes == 3

\* ------------------------------------------------------ exact arithmetic
Abs(x) == IF x < 0 THEN -x ELSE x

RECURSIVE GCD(_, _)
GCD(a, b) == IF b = 0 THEN a ELSE GCD(b, a % b)

RNorm(n, d) ==
    LET g == GCD(Abs(n), Abs(d))
        s == IF d < 0 THEN -1 ELSE 1
    IN  <<(s * n) \div g, (s * d) \div g>>

RInt(k) == <<k, 1>>
RAdd(u, v) == RNorm(u[1] * v[2] + v[1] * u[2], u[2] * v[2])
RSub(u, v) == RNorm(u[1] * v[2] - v[1] * u[2], u[2] * v[2])
RMul(u, v) == RNorm(u[1] * v[1], u[2] * v[2])
RDiv(u, v) == RNorm(u[1] * v[2], u[2] * v[1])

RECURSIVE RPow(_, _)
RPow(x, k) == IF k = 0 THEN RInt(1) ELSE RMul(x, RPow(x, k - 1))

\* Reals ln(q)/n.
LogNum(q, n) == [q |-> q, n |-> n]
LZero == LogNum(RInt(1), 1)
Exp(v) == v.q                                   \* np.exp, for v.n = 1
Log(r) == LogNum(r, 1)                          \* log of a positive rational
LAdd(u, v) == LogNum(RMul(u.q, v.q), 1)         \* u + v, for u.n = v.n = 1
LSub(u, v) == LogNum(RDiv(u.q, v.q), 1)         \* u - v, for u.n = v.n = 1
LScale(k, v) == LogNum(RPow(v.q, k), 1)         \* k * v, k a natural number
LNeg(v) == LogNum(RDiv(RInt(1), v.q), v.n)      \* -v
LDivInt(v, n) == LogNum(v.q, v.n * n)           \* v / n
LEq(u, v) ==
    IF u.n = v.n THEN u.q = v.q
    ELSE RPow(u.q, v.n) = RPow(v.q, u.n)

\* --------------------------------------------------------------- loss.py
Range(s) == {s[i] : i \in DOMAIN s}

RECURSIVE SumHazard(_, _)
SumHazard(ph, i) ==
    IF i = 0 THEN RInt(0) ELSE RAdd(SumHazard(ph, i - 1), ph[i])

PartialHazard(lp) == [i \in DOMAIN lp |-> Exp(lp[i])]

\* breslow_likelihood: the state before the loop over k.
BreslowStart(lp, t, e) ==
    [ previous_time   |-> t[1],
      risk_set_sum    |-> SumHazard(PartialHazard(lp), Len(t)),
      likelihood      |-> LZero,
      set_count       |-> 0,
      accumulated_sum |-> RInt(0) ]

\* Mutant of BreslowIter: the tie-block boundary is taken at every sample
\* (>= instead of >), so a tie block is closed before its deaths are counted.
BreslowIter_BoundaryAtTies(st, lp, t, e, k) ==
    LET lik1 == LSub(st.likelihood, LScale(st.set_count, Log(st.risk_set_sum)))
        rss1 == RSub(st.risk_set_sum, st.accumulated_sum)
    IN  [ previous_time   |-> t[k],
          risk_set_sum    |-> rss1,
          likelihood      |-> IF e[k] = 1 THEN LAdd(lik1, lp[k]) ELSE lik1,
          set_count       |-> IF e[k] = 1 THEN 1 ELSE 0,
          accumulated_sum |-> PartialHazard(lp)[k] ]

\* One iteration of the loop over k in which only deaths are accumulated
\* for removal from the risk set.
BreslowIter_KeepsCensoredInRiskSet(st, lp, t, e, k) ==
    LET boundary == t[k] > st.previous_time
        lik1 == IF boundary
                THEN LSub(st.likelihood, LScale(st.set_count, Log(st.risk_set_sum)))
                ELSE st.likelihood
        rss1 == IF boundary THEN RSub(st.risk_set_sum, st.accumulated_sum)
                ELSE st.risk_set_sum
        cnt1 == IF boundary THEN 0 ELSE st.set_count
        acc1 == IF boundary THEN RInt(0) ELSE st.accumulated_sum
    IN  [ previous_time   |-> t[k],
          risk_set_sum    |-> rss1,
          likelihood      |-> IF e[k] = 1 THEN LAdd(lik1, lp[k]) ELSE lik1,
          set_count       |-> IF e[k] = 1 THEN cnt1 + 1 ELSE cnt1,
          accumulated_sum |-> IF e[k] = 1 THEN RAdd(acc1, PartialHazard(lp)[k])
                              ELSE acc1 ]

\* One iteration of the loop over k (loss.py 67-81).
BreslowIter(st, lp, t, e, k) ==
    LET boundary == t[k] > st.previous_time
        lik1 == IF boundary
                THEN LSub(st.likelihood, LScale(st.set_count, Log(st.risk_set_sum)))
                ELSE st.likelihood
        rss1 == IF boundary THEN RSub(st.risk_set_sum, st.accumulated_sum)
                ELSE st.risk_set_sum
        cnt1 == IF boundary THEN 0 ELSE st.set_count
        acc1 == IF boundary THEN RInt(0) ELSE st.accumulated_sum
    IN  [ previous_time   |-> t[k],
          risk_set_sum    |-> rss1,
          likelihood      |-> IF e[k] = 1 THEN LAdd(lik1, lp[k]) ELSE lik1,
          set_count       |-> IF e[k] = 1 THEN cnt1 + 1 ELSE cnt1,
          accumulated_sum |-> RAdd(acc1, PartialHazard(lp)[k]) ]

RECURSIVE BreslowLoop(_, _, _, _)
BreslowLoop(lp, t, e, k) ==
    IF k = 0 THEN BreslowStart(lp, t, e)
    ELSE BreslowIter(BreslowLoop(lp, t, e, k - 1), lp, t, e, k)

breslow_likelihood(lp, t, e) ==
    LET st  == BreslowLoop(lp, t, e, Len(t))
        lik == LSub(st.likelihood, LScale(st.set_count, Log(st.risk_set_sum)))
    IN  LDivInt(LNeg(lik), Len(t))

\* efron_likelihood: the state before the loop over i.
EfronStart(lp, t, e) ==
    [ previous_time   |-> t[1],
      risk_set_sum    |-> SumHazard(PartialHazard(lp), Len(t)),
      accumulated_sum |-> RInt(0),
      death_set_count |-> 0,
      death_set_risk  |-> RInt(0),
      likelihood      |-> LZero ]

\* Mutant of EfronTieTerms: ell runs over 1..death_set_count instead of
\* 0..death_set_count-1.
RECURSIVE EfronTieTerms_OffByOne(_, _, _, _, _)
EfronTieTerms_OffByOne(lik, rss, cnt, risk, ell) ==
    IF ell = 0 THEN lik
    ELSE LSub(EfronTieTerms_OffByOne(lik, rss, cnt, risk, ell - 1),
              Log(RSub(rss, RMul(RNorm(ell, cnt), risk))))

\* for ell in range(death_set_count):
\*     likelihood -= log(risk_set_sum - (ell / death_set_count) * death_set_risk)
RECURSIVE EfronTieTerms(_, _, _, _, _)
EfronTieTerms(lik, rss, cnt, risk, ell) ==
    IF ell = 0 THEN lik
    ELSE LSub(EfronTieTerms(lik, rss, cnt, risk, ell - 1),
              Log(RSub(rss, RMul(RNorm(ell - 1, cnt), risk))))

\* One iteration of the loop over i (loss.py 24-46).
EfronIter(st, lp, t, e, i) ==
    LET boundary == st.previous_time < t[i]
        lik1 == IF boundary
                THEN EfronTieTerms(st.likelihood, st.risk_set_sum,
                                   st.death_set_count, st.death_set_risk,
                                   st.death_set_count)
                ELSE st.likelihood
        rss1 == IF boundary THEN RSub(st.risk_set_sum, st.accumulated_sum)
                ELSE st.risk_set_sum
        acc1 == IF boundary THEN RInt(0) ELSE st.accumulated_sum
        cnt1 == IF boundary THEN 0 ELSE st.death_set_count
        rsk1 == IF boundary THEN RInt(0) ELSE st.death_set_risk
    IN  [ previous_time   |-> t[i],
          risk_set_sum    |-> rss1,
          accumulated_sum |-> RAdd(acc1, PartialHazard(lp)[i]),
          death_set_count |-> IF e[i] = 1 THEN cnt1 + 1 ELSE cnt1,
          death_set_risk  |-> IF e[i] = 1 THEN RAdd(rsk1, PartialHazard(lp)[i])
                              ELSE rsk1,
          likelihood      |-> IF e[i] = 1 THEN LAdd(lik1, lp[i]) ELSE lik1 ]

RECURSIVE EfronLoop(_, _, _, _)
EfronLoop(lp, t, e, i) ==
    IF i = 0 THEN EfronStart(lp, t, e)
    ELSE EfronIter(EfronLoop(lp, t, e, i - 1), lp, t, e, i)

efron_likelihood(lp, t, e) ==
    LET st  == EfronLoop(lp, t, e, Len(t))
        lik == EfronTieTerms(st.likelihood, st.risk_set_sum,
                             st.death_set_count, st.death_set_risk,
                             st.death_set_count)
    IN  LDivInt(LNeg(lik), Len(t))

\* Inputs of the likelihoods.
HazardValues == {<<1, 2>>, <<1, 1>>, <<2, 1>>}
PredictorValues == {Log(h) : h \in HazardValues}

SeqsUpTo(S, n) == UNION {[1..m -> S] : m \in 1..n}

IsAscending(t) == \A i \in 1..(Len(t) - 1) : t[i] <= t[i + 1]
IsStrictlyAscending(t) == \A i \in 1..(Len(t) - 1) : t[i] < t[i + 1]

ToyTime == <<1, 2, 2, 3, 4, 5>>
ToyEvent == <<1, 0, 1, 1, 0, 1>>
ToyPredictor == [i \in 1..6 |-> Log(RInt(1))]

LossIdle ==
    /\ linear_predictor = <<>>
    /\ time = <<>>
    /\ event = <<>>
    /\ loss_breslow = None
    /\ loss_efron = None

ProxIdle ==
    /\ coef = <<>>
    /\ coef_at_call = <<>>
    /\ operator = <<>>
    /\ operator_at_call = <<>>
    /\ prox_result = None
    /\ thresh_result = None

BaseIdle ==
    /\ X = <<>>
    /\ y = <<>>
    /\ sample_weight = None
    /\ estimator = <<>>
    /\ score_result = None
    /\ row_order = <<>>
    /\ score_permuted = None
    /\ query_time = <<>>
    /\ surv_result = None

GridIdle ==
    /\ gradient = <<>>
    /\ hessian = <<>>
    /\ X_grid = <<>>
    /\ n_alphas = 0
    /\ alphas = None
    /\ path_alphas = None

FitIdle ==
    /\ cv = <<>>
    /\ l1_ratios = <<>>
    /\ n_jobs = None
    /\ cv_score_method = ""
    /\ y_length = 0
    /\ cross_validation = <<>>
    /\ model = <<>>
    /\ tasks = <<>>
    /\ fit_pc = "idle"
    /\ fit_outcome = None
    /\ gradient_calls = 0

PathIdle ==
    /\ n_irls_iter = 0
    /\ path_pc = "idle"
    /\ path_i = 0
    /\ path_q = 0
    /\ steps = <<>>
    /\ working_set = {}
    /\ strong_set = {}
    /\ kkt_violated = {}
    /\ beta_previous = None
    /\ beta_new = None
    /\ optimiser = None
    /\ eta_previous = None
    /\ eta_final = None
    /\ eta_new = None
    /\ kkt_eta = None
    /\ checked = {}
    /\ coefs = <<>>
    /\ train_eta = <<>>
    /\ test_eta = <<>>

IrlsIdle ==
    /\ X_irls = <<>>
    /\ y_irls = <<>>
    /\ hessian_mask_old = None
    /\ weights_old = None
    /\ gradient_at = <<>>
    /\ irls_pc = "idle"
    /\ irls_n = 0
    /\ irls_outcome = None

CvIdle == GridIdle /\ FitIdle /\ PathIdle /\ IrlsIdle

LossInit ==
    /\ ProxIdle
    /\ BaseIdle
    /\ CvIdle
    /\ \/ /\ time \in {t \in SeqsUpTo(1..MaxTime, MaxSamples) : IsAscending(t)}
          /\ event \in [DOMAIN time -> {0, 1}]
          /\ linear_predictor \in [DOMAIN time -> PredictorValues]
       \/ /\ time = ToyTime
          /\ event = ToyEvent
          /\ linear_predictor = ToyPredictor
    /\ loss_breslow = None
    /\ loss_efron = None

CallBreslow ==
    /\ loss_breslow = None
    /\ loss_breslow' = Some(breslow_likelihood(linear_predictor, time, event))
    /\ UNCHANGED <<linear_predictor, time, event, loss_efron, proxVars, baseVars, cvVars>>

CallEfron ==
    /\ loss_efron = None
    /\ loss_efron' = Some(efron_likelihood(linear_predictor, time, event))
    /\ UNCHANGED <<linear_predictor, time, event, loss_breslow, proxVars, baseVars, cvVars>>

LossNext == CallBreslow \/ CallEfron

SpecLoss == LossInit /\ [][LossNext]_vars

\* ------------------------------------------------------- claims on loss.py
NoTies == IsStrictlyAscending(time)
NoCensoring == \A i \in DOMAIN event : event[i] = 1
BothLikelihoodsReturned == loss_breslow # None /\ loss_efron # None

\* C1: for strictly increasing times and events all 1, and any linear
\* predictor, efron_likelihood and breslow_likelihood return the same value.
C1_EfronEqualsBreslow ==
    (BothLikelihoodsReturned /\ NoTies /\ NoCensoring)
        => LEq(loss_efron[1], loss_breslow[1])

\* C1 witness: both likelihoods were evaluated on at least two untied,
\* uncensored samples with a predictor that is not constant.
C1_Witness ==
    /\ BothLikelihoodsReturned /\ NoTies /\ NoCensoring
    /\ Len(time) >= 2
    /\ linear_predictor[1] # linear_predictor[2]

IsToyDataset ==
    time = ToyTime /\ event = ToyEvent /\ linear_predictor = ToyPredictor

\* -(-log(6) - log(4)) / 6
ToyClaimedLoss ==
    LDivInt(LNeg(LSub(LNeg(Log(RInt(6))), Log(RInt(4)))), 6)

\* -(-log(6) - log(5) - log(3)) / 6
ToyBreslowLoss ==
    LDivInt(LNeg(LSub(LSub(LNeg(Log(RInt(6))), Log(RInt(5))), Log(RInt(3)))), 6)

\* C2 as stated: on the toy dataset breslow_likelihood returns
\* -(-log(6) - log(4))/6 (risk-set sizes 6 and 4 only).
C2_ToyLossAsClaimed ==
    (IsToyDataset /\ loss_breslow # None) => LEq(loss_breslow[1], ToyClaimedLoss)

\* C2 amended: on the toy dataset breslow_likelihood returns
\* -(-log(6) - log(5) - log(3))/6: the deaths at times 1, 2, 3 and 5 meet
\* risk sets of sizes 6, 5, 3 and 1, and log(1) = 0.
C2_ToyLossRiskSets653 ==
    (IsToyDataset /\ loss_breslow # None) => LEq(loss_breslow[1], ToyBreslowLoss)

\* C2 witness: breslow_likelihood has returned on the toy dataset.
C2_Witness == IsToyDataset /\ loss_breslow # None

\* ------------------------------------------------- proximal_operators.py
\* Coefficients are numbers a + b/sqrt(s) with integers a, b and s >= 1
\* (a group's L2 norm is the square root of an integer); s = 0 is NaN.
Num(x) == [a |-> x, b |-> 0, s |-> 1]
Surd(a, b, s) == IF b = 0 THEN Num(a) ELSE [a |-> a, b |-> b, s |-> s]
NaN == [a |-> 0, b |-> 0, s |-> 0]
Ints(c) == [i \in DOMAIN c |-> c[i].a]
Nums(x) == [i \in DOMAIN x |-> Num(x[i])]

Sign(x) == IF x > 0 THEN 1 ELSE IF x < 0 THEN -1 ELSE 0
Max(u, v) == IF u >= v THEN u ELSE v

\* a * sqrt(s) + b > 0, for s >= 1.
SurdPositive(a, b, s) ==
    CASE a >= 0 /\ b >= 0 -> a > 0 \/ b > 0
      [] a <= 0 /\ b <= 0 -> FALSE
      [] a > 0 /\ b < 0   -> a * a * s > b * b
      [] OTHER            -> b * b > a * a * s

RECURSIVE SumSquares(_, _)
SumSquares(x, i) == IF i = 0 THEN 0 ELSE SumSquares(x, i - 1) + x[i] * x[i]

\* Mutant of _soft_threshold: the np.sign(x) factor is lost.
_soft_threshold_NoSign(x, threshold) ==
    [i \in DOMAIN x |-> Max(Abs(x[i]) - threshold, 0)]

\* np.sign(x) * np.maximum(np.abs(x) - threshold, 0.0)
_soft_threshold(x, threshold) ==
    [i \in DOMAIN x |-> Sign(x[i]) * Max(Abs(x[i]) - threshold, 0)]

\* np.sign(x) * np.maximum(np.abs(x) - threshold * (x / norm(x)), 0.0):
\* entry i is x[i] - threshold*|x[i]|/norm where |x[i]| - threshold*x[i]/norm
\* is positive, 0 elsewhere, and NaN (0/0) when the norm is 0.
_soft_threshold_group(x, threshold) ==
    LET S == SumSquares(x, Len(x))
    IN  [i \in DOMAIN x |->
            IF S = 0 THEN NaN
            ELSE IF SurdPositive(Abs(x[i]), -(threshold * x[i]), S)
                 THEN Surd(x[i], -(threshold * Abs(x[i])), S)
                 ELSE Num(0)]

\* _mcp_thresh: mask = np.sign(x) > threshold * gamma;
\* (gamma / (gamma - 1)) * _soft_threshold(x, threshold) * (1 - mask) + x * mask
_mcp_thresh(x, threshold, gamma) ==
    LET soft == _soft_threshold(x, threshold)
    IN  [i \in DOMAIN x |->
            LET mask == IF Sign(x[i]) > threshold * gamma THEN 1 ELSE 0
            IN  RAdd(RMul(RMul(RDiv(RInt(gamma), RInt(gamma - 1)), RInt(soft[i])),
                          RInt(1 - mask)),
                     RInt(x[i] * mask))]

\* The outcome of a call: what it returned, or the exception it raised.
Outcome(kind, value) == [kind |-> kind, value |-> value]
Returned(v) == Outcome("ndarray", v)
ReturnedNone == Outcome("None", <<>>)
Raised(exc) == Outcome(exc, <<>>)
IsArray(o) == o.kind = "ndarray"

\* _scad_thresh reads middle_mask in the expression that first assigns it
\* (lines 28-30): the call fails, as UnboundLocalError in the interpreter or
\* as numba's NotDefinedError when the function is compiled.
UseBeforeAssignment == {"UnboundLocalError", "NotDefinedError"}
_scad_thresh(x, threshold, a) == {Raised(e) : e \in UseBeforeAssignment}

\* Each __call__ gives the set of possible (outcome, contents of the caller's
\* array after the call, outcome of the thresholding function it called).
CallEffect(result, c, inner) == [result |-> result, coef |-> c, inner |-> inner]

HasAttr(self, name) == name \in DOMAIN self

LassoProximal_call(self, c) ==
    {CallEffect(Returned(Nums(_soft_threshold(Ints(c), self.threshold))), c, None)}

\* for group in self.groups: coef[group] = _soft_threshold_group(coef[group], ...)
\* after the first g groups; the groups are disjoint, so every group still
\* reads the entries the caller passed.
RECURSIVE GroupLassoLoop(_, _, _, _)
GroupLassoLoop(c, groups, threshold, g) ==
    IF g = 0 THEN c
    ELSE LET c1  == GroupLassoLoop(c, groups, threshold, g - 1)
             grp == groups[g]
             out == _soft_threshold_group([j \in DOMAIN grp |-> c1[grp[j]].a],
                                         threshold)
         IN  [i \in DOMAIN c1 |->
                 IF \E j \in DOMAIN grp : grp[j] = i
                 THEN out[CHOOSE j \in DOMAIN grp : grp[j] = i]
                 ELSE c1[i]]

GroupLassoProximal_call(self, c) ==
    LET c2 == GroupLassoLoop(c, self.groups, self.threshold, Len(self.groups))
    IN  {CallEffect(Returned(c2), c2, None)}

\* GLProximal is not a name of the module.
SGLProximal_call(self, c) == {CallEffect(Raised("NameError"), c, None)}

\* _scad_thresh(...) is evaluated and its value dropped: no return statement.
SCADProximal_call(self, c) ==
    {CallEffect(IF IsArray(r) THEN ReturnedNone ELSE r, c, Some(r)) :
        r \in _scad_thresh(Ints(c), self.threshold, self.a)}

\* self.gamma is read for the first group; the constructor sets a, not gamma.
GSCADProximal_call(self, c) ==
    IF Len(self.groups) = 0 THEN {CallEffect(Returned(c), c, None)}
    ELSE IF ~HasAttr(self, "gamma") THEN {CallEffect(Raised("AttributeError"), c, None)}
    ELSE {CallEffect(Raised("TypeError"), c, None)}

\* _mcp_thresh(...) is evaluated and its value dropped: no return statement.
MCPProximal_call(self, c) ==
    LET r == Returned(_mcp_thresh(Ints(c), self.threshold, self.gamma))
    IN  {CallEffect(ReturnedNone, c, Some(r))}

\* self.groups is read; the constructor does not set it.
GMCPProximal_call(self, c) ==
    IF ~HasAttr(self, "groups") THEN {CallEffect(Raised("AttributeError"), c, None)}
    ELSE {CallEffect(Raised("TypeError"), c, None)}

\* Constructors: the attributes each __init__ assigns.
LassoProximal(threshold) == [cls |-> "LassoProximal", threshold |-> threshold]
GroupLassoProximal(threshold, groups) ==
    [cls |-> "GroupLassoProximal", threshold |-> threshold, groups |-> groups]
SGLProximal(threshold, alpha, groups) ==
    [cls |-> "SGLProximal", threshold |-> threshold, alpha |-> alpha,
     groups |-> groups]
SCADProximal(threshold, a) ==
    [cls |-> "SCADProximal", threshold |-> threshold, a |-> a]
GSCADProximal(threshold, groups, a) ==
    [cls |-> "GSCADProximal", threshold |-> threshold, a |-> a, groups |-> groups]
MCPProximal(threshold, gamma) ==
    [cls |-> "MCPProximal", threshold |-> threshold, gamma |-> gamma]
GMCPProximal(threshold, gamma) ==
    [cls |-> "GMCPProximal", threshold |-> threshold, gamma |-> gamma]

\* Inputs: coefficient vectors, thresholds, shape constants, groups (a
\* partition of the p features into index lists).
CoefValues == (-MaxCoef)..MaxCoef
Thresholds == 0..MaxThreshold
GammaValues == {2, 4}
ScadShapes == {<<37, 10>>}
SGLAlphas == {<<1, 2>>}

RECURSIVE SortedSeq(_)
SortedSeq(S) ==
    IF S = {} THEN <<>>
    ELSE LET m == CHOOSE u \in S : \A v \in S : u <= v
         IN  <<m>> \o SortedSeq(S \ {m})

\* Labellings f of 1..p by group number, groups numbered by first member.
IsLabelling(f, p) ==
    \A i \in 1..p :
        /\ f[i] = 1 \/ \E j \in 1..(i - 1) : f[j] = f[i] - 1
        /\ i = 1 => f[i] = 1
GroupsOf(f, p) ==
    LET k == Cardinality({f[i] : i \in 1..p})
    IN  [g \in 1..k |-> SortedSeq({i \in 1..p : f[i] = g})]
Groupings(p) == {GroupsOf(f, p) : f \in {h \in [1..p -> 1..p] : IsLabelling(h, p)}}

Operators(p) ==
    UNION { {LassoProximal(t)}
            \cup {GroupLassoProximal(t, g) : g \in Groupings(p)}
            \cup {SGLProximal(t, al, g) : al \in SGLAlphas, g \in Groupings(p)}
            \cup {SCADProximal(t, a) : a \in ScadShapes}
            \cup {GSCADProximal(t, g, a) : g \in Groupings(p), a \in ScadShapes}
            \cup {MCPProximal(t, ga) : ga \in GammaValues}
            \cup {GMCPProximal(t, ga) : ga \in GammaValues}
          : t \in Thresholds }

ProxInit ==
    /\ LossIdle
    /\ BaseIdle
    /\ CvIdle
    /\ coef \in {Nums(x) : x \in SeqsUpTo(CoefValues, MaxFeatures)}
    /\ operator \in Operators(Len(coef))
    /\ coef_at_call = coef
    /\ operator_at_call = operator
    /\ prox_result = None
    /\ thresh_result = None

\* operator(coef): the call, with its effect on the caller's array.
Apply(effects) ==
    /\ prox_result = None
    /\ \E eff \in effects :
          /\ prox_result' = Some(eff.result)
          /\ coef' = eff.coef
          /\ thresh_result' = eff.inner
    /\ coef_at_call' = coef
    /\ operator_at_call' = operator
    /\ UNCHANGED <<operator, lossVars, baseVars, cvVars>>

CallLasso ==
    operator.cls = "LassoProximal" /\ Apply(LassoProximal_call(operator, coef))
CallGroupLasso ==
    operator.cls = "GroupLassoProximal"
        /\ Apply(GroupLassoProximal_call(operator, coef))
CallSGL ==
    operator.cls = "SGLProximal" /\ Apply(SGLProximal_call(operator, coef))
CallSCAD ==
    operator.cls = "SCADProximal" /\ Apply(SCADProximal_call(operator, coef))
CallGSCAD ==
    operator.cls = "GSCADProximal" /\ Apply(GSCADProximal_call(operator, coef))
CallMCP ==
    operator.cls = "MCPProximal" /\ Apply(MCPProximal_call(operator, coef))
CallGMCP ==
    operator.cls = "GMCPProximal" /\ Apply(GMCPProximal_call(operator, coef))

ProxNext ==
    \/ CallLasso
    \/ CallGroupLasso
    \/ CallSGL
    \/ CallSCAD
    \/ CallGSCAD
    \/ CallMCP
    \/ CallGMCP

SpecProx == ProxInit /\ [][ProxNext]_vars

\* ----------------------------------------- claims on proximal_operators.py
Called == prox_result # None
CalledClass(cls) == Called /\ operator_at_call.cls = cls
InputAtCall == Ints(coef_at_call)

GroupSumSquares(grp) ==
    SumSquares([j \in DOMAIN grp |-> InputAtCall[grp[j]]], Len(grp))
GroupAllZero(out, grp) == \A j \in DOMAIN grp : out[grp[j]] = Num(0)
GroupKeepsNonZero(out, grp) ==
    \A j \in DOMAIN grp : InputAtCall[grp[j]] # 0 => out[grp[j]] # Num(0)

\* C3 as stated: GroupLassoProximal zeroes a group all-or-nothing: a group
\* whose L2 norm is at most the threshold comes out all zero, and in any
\* other group no non-zero entry is set to zero.
C3_GroupZeroedAllOrNothing ==
    CalledClass("GroupLassoProximal") =>
        /\ IsArray(prox_result[1])
        /\ \A g \in DOMAIN operator_at_call.groups :
              LET grp == operator_at_call.groups[g]
                  t   == operator_at_call.threshold
              IN  IF GroupSumSquares(grp) <= t * t
                  THEN GroupAllZero(prox_result[1].value, grp)
                  ELSE GroupKeepsNonZero(prox_result[1].value, grp)

\* C4: LassoProximal(threshold)(x) is sign(x)*max(|x|-threshold, 0) entry by
\* entry: the identity when threshold = 0, zero where |x| <= threshold, and x
\* moved towards zero by threshold elsewhere.
C4_LassoSoftThreshold ==
    CalledClass("LassoProximal") =>
        LET t   == operator_at_call.threshold
            x   == InputAtCall
            out == prox_result[1].value
        IN  /\ IsArray(prox_result[1])
            /\ DOMAIN out = DOMAIN x
            /\ t = 0 => out = Nums(x)
            /\ \A i \in DOMAIN x :
                  /\ Abs(x[i]) <= t => out[i] = Num(0)
                  /\ x[i] > t => out[i] = Num(x[i] - t)
                  /\ x[i] < -t => out[i] = Num(x[i] + t)

\* C4 witness: a Lasso call with a positive threshold that zeroes one entry
\* and shrinks a negative one.
C4_Witness ==
    /\ CalledClass("LassoProximal")
    /\ operator_at_call.threshold > 0
    /\ \E i, j \in DOMAIN coef_at_call :
          /\ InputAtCall[i] # 0 /\ prox_result[1].value[i] = Num(0)
          /\ InputAtCall[j] < 0 /\ prox_result[1].value[j] # Num(0)

\* C5 as stated: every operator of the family, called on a length-p vector,
\* returns a length-p vector: not None, not an exception.
C5_UniformInterface ==
    Called =>
        /\ IsArray(prox_result[1])
        /\ Len(prox_result[1].value) = Len(coef_at_call)

\* C6 as stated: the call leaves the caller's coefficient vector and the
\* operator's parameters as they were.
C6_CallIsPure ==
    Called => (coef = coef_at_call /\ operator = operator_at_call)

ShapeTimesThreshold(op) ==
    IF HasAttr(op, "gamma") THEN op.gamma * op.threshold ELSE 0

\* C7 as stated: _mcp_thresh and _scad_thresh return x unchanged at every
\* entry with |x| > gamma*threshold (resp. a*threshold).
C7_NoShrinkageOfLargeEntries ==
    thresh_result # None =>
        /\ IsArray(thresh_result[1])
        /\ \A i \in DOMAIN coef_at_call :
              Abs(InputAtCall[i]) > ShapeTimesThreshold(operator_at_call)
                  => thresh_result[1].value[i] = RInt(InputAtCall[i])

\* --------------------------------------------------------------- _base.py
\* np.argsort(a, kind="stable"): index i is inserted behind every index
\* already placed whose key is <= a[i] (those are smaller indices).
InsertStable(idx, a, i) ==
    LET pos == Cardinality({k \in DOMAIN idx : a[idx[k]] <= a[i]})
    IN  [k \in 1..(Len(idx) + 1) |->
            IF k <= pos THEN idx[k]
            ELSE IF k = pos + 1 THEN i
            ELSE idx[k - 1]]

RECURSIVE ArgsortPrefix(_, _)
ArgsortPrefix(a, m) ==
    IF m = 0 THEN <<>> ELSE InsertStable(ArgsortPrefix(a, m - 1), a, m)

StableArgsort(a) == ArgsortPrefix(a, Len(a))
Take(a, idx) == [k \in DOMAIN idx |-> a[idx[k]]]
StableSort(a) == Take(a, StableArgsort(a))

\* inverse_transform_survival: time = |y|, event = 1 where y is not negative.
inverse_transform_survival(yy) ==
    [time  |-> [i \in DOMAIN yy |-> Abs(yy[i])],
     event |-> [i \in DOMAIN yy |-> IF Abs(yy[i]) = yy[i] THEN 1 ELSE 0]]

\* k * v for an integer k.
LScaleInt(k, v) ==
    IF k >= 0 THEN LScale(k, v) ELSE LSub(LZero, LScale(-k, v))

RECURSIVE DotPrefix(_, _, _)
DotPrefix(row, w, j) ==
    IF j = 0 THEN LZero
    ELSE LAdd(DotPrefix(row, w, j - 1), LScaleInt(row[j], w[j]))

\* self.predict(X): the linear predictor X @ coef_.
predict(self, XX) ==
    [i \in DOMAIN XX |-> DotPrefix(XX[i], self.coef_, Len(self.coef_))]

\* self.loss(linear_predictor, time, event, sample_weight): the estimator's
\* likelihood, an entry of LOSS_FACTORY.
EstimatorLoss(self, call) ==
    IF self.loss = "breslow"
    THEN breslow_likelihood(call.linear_predictor, call.time, call.event)
    ELSE efron_likelihood(call.linear_predictor, call.time, call.event)

UniformWeights(n) == [i \in 1..n |-> RNorm(1, n)]

\* Mutant of score: the rows of X are not reordered with the times.
score_RowsNotSorted(self, XX, yy, sw) ==
    LET te      == inverse_transform_survival(yy)
        sorted_indices == StableArgsort(te.time)
        weights == IF sw = None THEN UniformWeights(Len(te.time)) ELSE sw[1]
        call    == [linear_predictor |-> predict(self, XX),
                    time             |-> Take(te.time, sorted_indices),
                    event            |-> Take(te.event, sorted_indices),
                    sample_weight    |-> weights]
    IN  [loss_call |-> call, value |-> LNeg(EstimatorLoss(self, call))]

\* Mutant of score: the events are not reordered with the times.
score_EventsNotSorted(self, XX, yy, sw) ==
    LET te      == inverse_transform_survival(yy)
        sorted_indices == StableArgsort(te.time)
        weights == IF sw = None THEN UniformWeights(Len(te.time)) ELSE sw[1]
        call    == [linear_predictor |-> predict(self, Take(XX, sorted_indices)),
                    time             |-> Take(te.time, sorted_indices),
                    event            |-> te.event,
                    sample_weight    |-> weights]
    IN  [loss_call |-> call, value |-> LNeg(EstimatorLoss(self, call))]

\* RegularizedLinearSurvivalModel.score: the arguments handed to self.loss
\* and the value returned.
score(self, XX, yy, sw) ==
    LET te      == inverse_transform_survival(yy)
        sorted_indices == StableArgsort(te.time)
        time_sorted    == Take(te.time, sorted_indices)
        event_sorted   == Take(te.event, sorted_indices)
        X_sorted       == Take(XX, sorted_indices)
        weights == IF sw = None THEN UniformWeights(Len(te.time)) ELSE sw[1]
        call    == [linear_predictor |-> predict(self, X_sorted),
                    time             |-> time_sorted,
                    event            |-> event_sorted,
                    sample_weight    |-> weights]
    IN  [loss_call |-> call, value |-> LNeg(EstimatorLoss(self, call))]

\* A subclass's cumulative hazard, one value per sample and requested time:
\* H(x, t) = t * (1 + x[1]) * ln 2.
SubclassCumulativeHazard(XX, tt) ==
    [i \in DOMAIN XX |->
        [j \in DOMAIN tt |-> LScale(tt[j] * (1 + XX[i][1]), Log(RInt(2)))]]

\* predict_cumulative_hazard_function: the base class raises
\* NotImplementedError; a subclass overrides it.
predict_cumulative_hazard_function(self, XX, tt) ==
    IF self.hazard = "abstract" THEN Raised("NotImplementedError")
    ELSE Returned(SubclassCumulativeHazard(XX, tt))

\* Mutant of predict_survival_function: the times are used as given.
predict_survival_function_Unsorted(self, XX, tt) ==
    LET chf == predict_cumulative_hazard_function(self, XX, tt)
    IN  IF ~IsArray(chf) THEN chf
        ELSE Returned([i \in DOMAIN chf.value |->
                         [j \in DOMAIN chf.value[i] |-> Exp(LNeg(chf.value[i][j]))]])

\* predict_survival_function: np.exp(np.negative(chf(X, time_sorted))).
predict_survival_function(self, XX, tt) ==
    LET time_sorted == StableSort(tt)
        chf == predict_cumulative_hazard_function(self, XX, time_sorted)
    IN  IF ~IsArray(chf) THEN chf
        ELSE Returned([i \in DOMAIN chf.value |->
                         [j \in DOMAIN chf.value[i] |-> Exp(LNeg(chf.value[i][j]))]])

\* Inputs of the estimator.
FeatureValues == {0, 1}
RowTimes == {1, 2}
Targets == RowTimes \cup {-t : t \in RowTimes}
Coefficients == <<Log(RInt(2))>>
Estimators(losses, hazards) ==
    {[coef_ |-> Coefficients, loss |-> l, hazard |-> h] : l \in losses, h \in hazards}
Rows(n) == [1..n -> [1..Len(Coefficients) -> FeatureValues]]
RowPermutations(n) == {f \in [1..n -> 1..n] : \A i, j \in 1..n : f[i] = f[j] => i = j}
Identity(n) == [i \in 1..n |-> i]
GivenWeights(n) == [i \in 1..n |-> RInt(i)]

ScoreInit ==
    /\ LossIdle
    /\ ProxIdle
    /\ CvIdle
    /\ \E n \in 1..MaxRows :
          /\ X \in Rows(n)
          /\ y \in [1..n -> Targets]
          /\ sample_weight \in {None, Some(GivenWeights(n))}
          /\ row_order = Identity(n)
    /\ estimator \in Estimators({"breslow"}, {"abstract"})
    /\ score_result = None
    /\ score_permuted = None
    /\ query_time = <<>>
    /\ surv_result = None

\* estimator.score(X, y, sample_weight)
CallScore ==
    /\ score_result = None
    /\ score_result' = Some(score(estimator, X, y, sample_weight))
    /\ UNCHANGED <<X, y, sample_weight, estimator, row_order, score_permuted,
                   query_time, surv_result, lossVars, proxVars, cvVars>>

\* then estimator.score(X[perm], y[perm]) for a permutation perm of the rows
CallScorePermuted ==
    /\ score_result # None
    /\ score_permuted = None
    /\ sample_weight = None
    /\ \E perm \in RowPermutations(Len(y)) :
          /\ row_order' = perm
          /\ score_permuted' =
                Some(score(estimator, Take(X, perm), Take(y, perm), None))
    /\ UNCHANGED <<X, y, sample_weight, estimator, score_result,
                   query_time, surv_result, lossVars, proxVars, cvVars>>

ScoreNext == CallScore \/ CallScorePermuted

SpecScore == ScoreInit /\ [][ScoreNext]_vars

SurvInit ==
    /\ LossIdle
    /\ ProxIdle
    /\ CvIdle
    /\ X \in UNION {Rows(n) : n \in 1..MaxRows}
    /\ y = <<>>
    /\ sample_weight = None
    /\ row_order = <<>>
    /\ estimator \in Estimators({"breslow"}, {"abstract", "implemented"})
    /\ score_result = None
    /\ score_permuted = None
    /\ query_time \in SeqsUpTo(1..MaxTime, MaxQueryTimes)
    /\ surv_result = None

\* estimator.predict_survival_function(X, query_time)
CallPredictSurvival ==
    /\ surv_result = None
    /\ surv_result' = Some(predict_survival_function(estimator, X, query_time))
    /\ UNCHANGED <<X, y, sample_weight, estimator, score_result, row_order,
                   score_permuted, query_time, lossVars, proxVars, cvVars>>

SurvNext == CallPredictSurvival

SpecSurv == SurvInit /\ [][SurvNext]_vars

\* ------------------------------------------------------ claims on _base.py
Decoded == inverse_transform_survival(y)

\* The place of sample i once times are ascending and tied samples keep
\* their input order: one more than the number of samples that precede it.
StableRank(t, i) ==
    1 + Cardinality({j \in DOMAIN t : t[j] < t[i] \/ (t[j] = t[i] /\ j < i)})

RECURSIVE RSum(_, _)
RSum(w, i) == IF i = 0 THEN RInt(0) ELSE RAdd(RSum(w, i - 1), w[i])

\* C8: score returns the negative of the estimator's loss evaluated on the
\* rows of X, the times and the events all reordered by the one stable
\* ascending-time permutation; the weights default to the uniform 1/n, which
\* sum to 1.
C8_ScoreIsNegatedLossOnSortedData ==
    score_result # None =>
        LET call == score_result[1].loss_call
            n    == Len(y)
            eta  == predict(estimator, X)
        IN  /\ DOMAIN call.time = 1..n
            /\ DOMAIN call.event = 1..n
            /\ DOMAIN call.linear_predictor = 1..n
            /\ \A i \in 1..n :
                  LET k == StableRank(Decoded.time, i)
                  IN  /\ call.time[k] = Decoded.time[i]
                      /\ call.event[k] = Decoded.event[i]
                      /\ call.linear_predictor[k] = eta[i]
            /\ sample_weight = None =>
                  /\ call.sample_weight = [k \in 1..n |-> RNorm(1, n)]
                  /\ RSum(call.sample_weight, n) = RInt(1)
            /\ LET loss == EstimatorLoss(estimator, call)
                   val  == score_result[1].value
               IN  val.n = loss.n /\ RMul(val.q, loss.q) = RInt(1)

\* C8 witness: score has returned on rows given out of time order, among
\* them a tie, with default weights.
C8_Witness ==
    /\ score_result # None
    /\ sample_weight = None
    /\ \E i, j \in DOMAIN y : i < j /\ Decoded.time[i] > Decoded.time[j]
    /\ \E i, j \in DOMAIN y :
          i # j /\ Decoded.time[i] = Decoded.time[j] /\ X[i] # X[j]

\* C9: permuting the rows of X and the entries of y together does not
\* change score(X, y), tied times included.
C9_ScoreInvariantUnderRowOrder ==
    (score_result # None /\ score_permuted # None)
        => LEq(score_result[1].value, score_permuted[1].value)

\* C9 witness: both scores were taken, and the permutation exchanged two
\* tied samples that differ in event and in features.
C9_Witness ==
    /\ score_result # None /\ score_permuted # None
    /\ \E i, j \in DOMAIN y :
          /\ i < j /\ row_order[i] = j /\ row_order[j] = i
          /\ Decoded.time[i] = Decoded.time[j]
          /\ Decoded.event[i] # Decoded.event[j]
          /\ X[i] # X[j]

SameCounts(a, b) ==
    \A v \in Range(a) \cup Range(b) :
        Cardinality({i \in DOMAIN a : a[i] = v})
            = Cardinality({i \in DOMAIN b : b[i] = v})
AscendingCopy(t) ==
    CHOOSE s \in [DOMAIN t -> Range(t)] : IsAscending(s) /\ SameCounts(s, t)

\* C10: predict_survival_function(X, time) is exp(-cumulative hazard) entry
\* by entry, the cumulative hazard being evaluated at the times sorted
\* ascending; with no cumulative hazard implemented the call raises
\* NotImplementedError and returns nothing.
C10_SurvivalIsExpNegCumulativeHazard ==
    surv_result # None =>
        IF estimator.hazard = "abstract"
        THEN surv_result[1] = Raised("NotImplementedError")
        ELSE LET chf == predict_cumulative_hazard_function(
                            estimator, X, AscendingCopy(query_time))
                 out == surv_result[1]
             IN  /\ IsArray(out)
                 /\ DOMAIN out.value = DOMAIN X
                 /\ \A i \in DOMAIN X :
                       /\ DOMAIN out.value[i] = DOMAIN query_time
                       /\ \A j \in DOMAIN query_time :
                             RMul(out.value[i][j], Exp(chf.value[i][j])) = RInt(1)

\* C10 witness: a survival function was returned for query times given in
\* descending order.
C10_Witness ==
    /\ surv_result # None
    /\ IsArray(surv_result[1])
    /\ Len(query_time) >= 2
    /\ \A j \in 1..(Len(query_time) - 1) : query_time[j] > query_time[j + 1]

\* C10 witness, abstract case: the base class was asked and raised.
C10_WitnessRaised ==
    surv_result # None /\ estimator.hazard = "abstract"

\* ------------------------------------------------ cv.py: the alpha grid
\* Alphas are rationals counted in units of 1e-10, the last decimal that
\* np.round(..., decimals=10) keeps.  RNaN is the float nan (0.0 / 0.0).
RNaN == <<0, 0>>
RLess(u, v) == u # RNaN /\ v # RNaN /\ u[1] * v[2] < v[1] * u[2]
RLeq(u, v) == u # RNaN /\ v # RNaN /\ u[1] * v[2] <= v[1] * u[2]

MaxGridRows == 2
MaxGridFeatures == 1
MaxAlphas == 2

\* np.finfo(float).resolution = 1e-15
resolution == <<1, 100000>>
\* the 1e-9 added to alpha_max
AlphaMaxOffset == RInt(10)
\* n_alphas = 100, the number of points of the logspace grid
LogspaceNum == 100
\* eps = 0.1: the grid ends at eps * (alpha_max + 1e-9)
LogspaceEps == <<1, 10>>

\* floor(10^6 * log10(n)) for n = 1..80: np.log10 on the integers that the
\* comparisons of RoundedLogspace need.
Log10Micro ==
    <<      0,  301029,  477121,  602059,  698970,  778151,  845098,  903089,  954242, 1000000,
      1041392, 1079181, 1113943, 1146128, 1176091, 1204119, 1230448, 1255272, 1278753, 1301029,
      1322219, 1342422, 1361727, 1380211, 1397940, 1414973, 1431363, 1447158, 1462397, 1477121,
      1491361, 1505149, 1518513, 1531478, 1544068, 1556302, 1568201, 1579783, 1591064, 1602059,
      1612783, 1623249, 1633468, 1643452, 1653212, 1662757, 1672097, 1681241, 1690196, 1698970,
      1707570, 1716003, 1724275, 1732393, 1740362, 1748188, 1755874, 1763427, 1770852, 1778151,
      1785329, 1792391, 1799340, 1806179, 1812913, 1819543, 1826074, 1832508, 1838849, 1845098,
      1851258, 1857332, 1863322, 1869231, 1875061, 1880813, 1886490, 1892094, 1897627, 1903089>>

\* np.round of a rational: to the nearest integer, halves to the even one.
RoundHalfEven(r) ==
    LET f == r[1] \div r[2]
        twice == 2 * (r[1] - f * r[2])
    IN  IF twice < r[2] THEN f
        ELSE IF twice > r[2] THEN f + 1
        ELSE IF f % 2 = 0 THEN f ELSE f + 1

\* hi * 10^(-k/(num-1)) >= m - 1/2, for 0 < k < num - 1: compared through
\* log10, (num-1) * (log10(2*hi) - log10(2m - 1)) >= k.
LogspaceAtLeast(hi, k, m) ==
    \/ m = 0
    \/ (LogspaceNum - 1) * (Log10Micro[2 * hi[1]] - Log10Micro[hi[2] * (2 * m - 1)])
          >= 1000000 * k

\* Entry k (from 0) of np.round(np.logspace(log10(hi*eps), log10(hi),
\* num)[::-1], decimals=10), that is hi * 10^(-k/(num-1)) rounded.
RoundedLogspace(hi, k) ==
    IF hi = RNaN THEN RNaN
    ELSE IF k = 0 THEN RInt(RoundHalfEven(hi))
    ELSE IF k = LogspaceNum - 1 THEN RInt(RoundHalfEven(RMul(hi, LogspaceEps)))
    ELSE LET top == RoundHalfEven(hi)
             reached == {m \in 0..top : LogspaceAtLeast(hi, k, m)}
         IN  RInt(CHOOSE m \in reached : \A o \in reached : o <= m)

\* sum over the rows with hessian > 0 of gradient[i] * X[i][j]
RECURSIVE MaskedDot(_, _, _, _, _)
MaskedDot(g, Xm, h, j, i) ==
    IF i = 0 THEN 0
    ELSE MaskedDot(g, Xm, h, j, i - 1) + (IF h[i] > 0 THEN g[i] * Xm[i][j] ELSE 0)

\* np.sum(hessian[hessian_mask])
RECURSIVE MaskedSum(_, _)
MaskedSum(h, i) ==
    IF i = 0 THEN 0 ELSE MaskedSum(h, i - 1) + (IF h[i] > 0 THEN h[i] ELSE 0)

\* max |gradient[mask] @ X[mask, :]| / sum(hessian[mask]); nan (0/0) when no
\* row has hessian > 0.
alpha_max(Xm, g, h) ==
    LET n == Len(h)
        dots == {Abs(MaskedDot(g, Xm, h, j, n)) : j \in 1..Len(Xm[1])}
        top == CHOOSE d \in dots : \A o \in dots : o <= d
        total == MaskedSum(h, n)
    IN  IF total = 0 THEN RNaN ELSE RNorm(top, total)

_alpha_grid(Xm, g, h, n) ==
    LET am == alpha_max(Xm, g, h)
    IN  IF RLeq(am, resolution)
        THEN [k \in 1..n |-> resolution]
        ELSE LET hi == IF am = RNaN THEN RNaN ELSE RAdd(am, AlphaMaxOffset)
             IN  [k \in 1..LogspaceNum |-> RoundedLogspace(hi, k - 1)]

\* np.sort(alphas)[::-1]
RECURSIVE SortDescending(_)
SortDescending(a) ==
    IF Len(a) = 0 THEN <<>>
    ELSE LET i == CHOOSE i \in 1..Len(a) : \A j \in 1..Len(a) : RLeq(a[j], a[i])
             rest == [k \in 1..(Len(a) - 1) |-> IF k < i THEN a[k] ELSE a[k + 1]]
         IN  <<a[i]>> \o SortDescending(rest)

\* regularisation_path, lines 142-155: the alphas the loop iterates over
PathAlphas(Xm, g, h, n, given) ==
    IF given = None THEN _alpha_grid(Xm, g, h, n)
    ELSE IF Len(given[1]) > 1 THEN SortDescending(given[1])
    ELSE given[1]

GradientValues == {-1, 0, 1}
HessianValues == {0, 1}
GridFeatureValues == {0, 1}
AlphaValues == {RInt(0), RInt(1), RInt(2)}

GridInit ==
    /\ LossIdle
    /\ ProxIdle
    /\ BaseIdle
    /\ FitIdle
    /\ PathIdle
    /\ IrlsIdle
    /\ \E n \in 1..MaxGridRows, p \in 1..MaxGridFeatures :
          /\ gradient \in [1..n -> GradientValues]
          /\ hessian \in [1..n -> HessianValues]
          /\ X_grid \in [1..n -> [1..p -> GridFeatureValues]]
    /\ n_alphas \in 1..MaxAlphas
    /\ alphas \in {None} \cup {Some(a) : a \in SeqsUpTo(AlphaValues, MaxAlphas)}
    /\ path_alphas = None

\* alphas is None: the grid is computed
CallAlphaGrid ==
    /\ path_alphas = None
    /\ alphas = None
    /\ path_alphas' = Some(PathAlphas(X_grid, gradient, hessian, n_alphas, alphas))
    /\ UNCHANGED <<gradient, hessian, X_grid, n_alphas, alphas,
                   lossVars, proxVars, baseVars, fitVars, pathVars, irlsVars>>

\* alphas supplied: they are sorted
SortSuppliedAlphas ==
    /\ path_alphas = None
    /\ alphas # None
    /\ path_alphas' = Some(PathAlphas(X_grid, gradient, hessian, n_alphas, alphas))
    /\ UNCHANGED <<gradient, hessian, X_grid, n_alphas, alphas,
                   lossVars, proxVars, baseVars, fitVars, pathVars, irlsVars>>

GridNext == CallAlphaGrid \/ SortSuppliedAlphas

SpecGrid == GridInit /\ [][GridNext]_vars

IsStrictlyDescending(a) == \A i \in 1..(Len(a) - 1) : RLess(a[i + 1], a[i])
IsPositive(a) == \A i \in 1..Len(a) : RLess(RInt(0), a[i])

\* C11 as stated: the alpha sequence the path solver iterates over, whether
\* returned by _alpha_grid or a sorted user-supplied array, is strictly
\* descending and positive.
C11_AlphasStrictlyDescendingPositive ==
    path_alphas # None =>
        IsStrictlyDescending(path_alphas[1]) /\ IsPositive(path_alphas[1])

\* ------------------------------------------- cv.py: CrossValidation.fit
\* cv = 5 if cv is None
DefaultFolds == 5

CvArgument(kind, n) == [kind |-> kind, n_splits |-> n]

\* CrossValidation.__init__: the TypeError of list(a float), the ValueError
\* of an unusable cv, or the attributes of the constructed object.
CrossValidation(cvArg, alphasArg, ratiosArg, jobsArg, methodArg, nAlphasArg) ==
    IF ratiosArg.kind = "float" THEN Raised("TypeError")
    ELSE LET given == IF cvArg.kind = "None"
                      THEN CvArgument("Integral", DefaultFolds) ELSE cvArg
         IN  IF given.kind \notin {"Integral", "Iterable", "splitter"}
             THEN Raised("ValueError")
             ELSE Outcome("CrossValidation",
                          [cv |-> given.n_splits,
                           alphas |-> alphasArg,
                           n_alphas |-> nAlphasArg,
                           l1_ratios |-> ratiosArg.value,
                           n_jobs |-> jobsArg,
                           cv_score_method |-> methodArg])

\* self._get_estimator(): a fresh estimator; writer 0 is its constructor.
NewModel ==
    [alpha |-> None, alpha_writer |-> 0,
     l1_ratio |-> None, l1_ratio_writer |-> 0,
     warm_start |-> FALSE,
     coef_ |-> None, coef_writer |-> 0]

\* model.fit on the given rows: the coefficients are a function of the rows
\* and of the model's alpha and l1_ratio at the time of the call.
Fitted(alpha, l1_ratio, rows) == [alpha |-> alpha, l1_ratio |-> l1_ratio, rows |-> rows]

\* self.cv.split(X, y): n_splits (train, test) pairs over the rows 1..n
Folds(k, n) ==
    [j \in 1..k |->
        LET test == {i \in 1..n : (i - 1) % k = j - 1}
        IN  [train |-> (1..n) \ test, test |-> test]]

\* lines 822-841: one alpha sequence per l1_ratio, or the ValueError of
\* check_scalar on a negative entry
FitAlphas(self, Xm, g, h) ==
    IF self.alphas = None
    THEN Outcome("list", [r \in DOMAIN self.l1_ratios |-> _alpha_grid(Xm, g, h, self.n_alphas)])
    ELSE IF \E i \in DOMAIN self.alphas[1] : RLess(self.alphas[1][i], RInt(0))
    THEN Raised("ValueError")
    ELSE Outcome("list", [r \in DOMAIN self.l1_ratios |-> SortDescending(self.alphas[1])])

\* lines 849-864: the delayed calls, l1_ratios outermost, folds innermost
Jobs(ratios, alphaLists, folds) ==
    [t \in 1..(Len(ratios) * Len(folds)) |->
        LET r == ((t - 1) \div Len(folds)) + 1
            f == ((t - 1) % Len(folds)) + 1
        IN  [l1_ratio |-> ratios[r],
             alphas |-> alphaLists[r],
             train |-> folds[f].train,
             test |-> folds[f].test,
             pc |-> "queued",
             i |-> 1,
             fit |-> None,
             eta |-> <<>>]]

Workers(jobs) == IF jobs = None THEN 1 ELSE jobs[1]
Running(t) == tasks[t].pc \notin {"queued", "done"}

RHalf == <<1, 2>>
L1RatioArgument(kind, value) == [kind |-> kind, value |-> value]
L1RatioArguments ==
    {L1RatioArgument("list", <<RInt(1)>>), L1RatioArgument("list", <<RHalf, RInt(1)>>),
     L1RatioArgument("float", <<RHalf>>)}
CvArguments ==
    {CvArgument("None", 0), CvArgument("Integral", 2), CvArgument("Iterable", 2),
     CvArgument("splitter", 2), CvArgument("float", 0)}
FitAlphaLists ==
    {<<RInt(2)>>, <<RInt(1), RInt(2)>>, <<RInt(2), RInt(-1)>>}
NumRows(cvArg) == IF cvArg.kind = "None" THEN DefaultFolds ELSE 2
MaxTasks == 5

FitInit ==
    /\ LossIdle
    /\ ProxIdle
    /\ BaseIdle
    /\ PathIdle
    /\ IrlsIdle
    /\ cv \in CvArguments
    /\ l1_ratios \in L1RatioArguments
    /\ n_jobs \in {None, Some(2)}
    /\ cv_score_method \in {"linear_predictor", "regular"}
    /\ alphas \in {None} \cup {Some(a) : a \in FitAlphaLists}
    /\ n_jobs # None => alphas # None
    /\ Len(l1_ratios.value) * NumRows(cv) <= MaxTasks
    /\ n_alphas \in 1..MaxAlphas
    /\ alphas # None => n_alphas = 1
    /\ LET n == NumRows(cv)
       IN  /\ X_grid \in {[i \in 1..n |-> <<v>>] : v \in GridFeatureValues}
           /\ alphas # None => X_grid[1][1] = 1
           /\ gradient = [i \in 1..n |-> 1]
           /\ hessian = [i \in 1..n |-> 1]
           /\ y_length \in {n - 1, n, n + 1}
    /\ path_alphas = None
    /\ cross_validation = <<>>
    /\ model = <<>>
    /\ tasks = <<>>
    /\ fit_pc = "new"
    /\ fit_outcome = None
    /\ gradient_calls = 0

fitInputs == <<gridVars, cv, l1_ratios, n_jobs, cv_score_method, y_length>>

\* CrossValidation(...)
Construct ==
    /\ fit_pc = "new"
    /\ LET made == CrossValidation(cv, alphas, l1_ratios, n_jobs, cv_score_method, n_alphas)
       IN  IF made.kind = "CrossValidation"
           THEN /\ cross_validation' = made.value
                /\ fit_pc' = "constructed"
                /\ UNCHANGED fit_outcome
           ELSE /\ fit_outcome' = Some(made)
                /\ fit_pc' = "raised"
                /\ UNCHANGED cross_validation
    /\ UNCHANGED <<fitInputs, model, tasks, gradient_calls, lossVars, proxVars, baseVars, pathVars, irlsVars>>

\* fit, lines 769-844: sorting, validation, the estimator, the gradient at
\* zero, the alphas
FitPrepare ==
    /\ fit_pc = "constructed"
    /\ LET len_X == Len(X_grid)
           grids == FitAlphas(cross_validation, X_grid, gradient, hessian)
       IN  IF y_length > len_X
           THEN \* X[sorted_indices, :] with an index beyond the rows of X
                /\ fit_outcome' = Some(Raised("IndexError"))
                /\ fit_pc' = "raised"
                /\ UNCHANGED <<model, gradient_calls, path_alphas>>
           ELSE IF y_length # len_X
           THEN \* check_consistent_length(X, y)
                /\ fit_outcome' = Some(Raised("ValueError"))
                /\ fit_pc' = "raised"
                /\ UNCHANGED <<model, gradient_calls, path_alphas>>
           ELSE /\ model' = NewModel
                /\ gradient_calls' = gradient_calls + 1
                /\ IF grids.kind = "list"
                   THEN /\ path_alphas' = Some(grids.value)
                        /\ fit_pc' = "prepared"
                        /\ UNCHANGED fit_outcome
                   ELSE /\ fit_outcome' = Some(grids)
                        /\ fit_pc' = "raised"
                        /\ UNCHANGED path_alphas
    /\ UNCHANGED <<gradient, hessian, X_grid, n_alphas, alphas, cv, l1_ratios, n_jobs,
                   cv_score_method, y_length, cross_validation, tasks,
                   lossVars, proxVars, baseVars, pathVars, irlsVars>>

\* fit, lines 846-870: the folds and the calls handed to Parallel
FitDispatch ==
    /\ fit_pc = "prepared"
    /\ tasks' = Jobs(cross_validation.l1_ratios, path_alphas[1],
                     Folds(cross_validation.cv, Len(X_grid)))
    /\ fit_pc' = "running"
    /\ UNCHANGED <<fitInputs, cross_validation, model, fit_outcome, gradient_calls,
                   lossVars, proxVars, baseVars, pathVars, irlsVars>>

TaskFrame ==
    UNCHANGED <<fitInputs, cross_validation, fit_pc, fit_outcome, gradient_calls,
                lossVars, proxVars, baseVars, pathVars, irlsVars>>

\* alpha_path_eta, lines 608-649: a worker takes the next call; the slices;
\* warm_start and l1_ratio are set on the model
TaskBegin(t) ==
    /\ fit_pc = "running"
    /\ tasks[t].pc = "queued"
    /\ \A u \in 1..(t - 1) : tasks[u].pc # "queued"
    /\ Cardinality({u \in DOMAIN tasks : Running(u)}) < Workers(cross_validation.n_jobs)
    /\ model' = [model EXCEPT !.warm_start = TRUE,
                              !.l1_ratio = Some(tasks[t].l1_ratio),
                              !.l1_ratio_writer = t]
    /\ tasks' = [tasks EXCEPT ![t].pc = "set_alpha"]
    /\ TaskFrame

\* line 652: model.alpha = alpha
TaskSetAlpha(t) ==
    /\ tasks[t].pc = "set_alpha"
    /\ model' = [model EXCEPT !.alpha = Some(tasks[t].alphas[tasks[t].i]),
                              !.alpha_writer = t]
    /\ tasks' = [tasks EXCEPT ![t].pc = "fit"]
    /\ TaskFrame

\* line 653: model.fit(X, y), on every row of X and y
TaskFit(t) ==
    /\ tasks[t].pc = "fit"
    /\ LET rows == 1..Len(X_grid)
           used == [alpha |-> model.alpha[1],
                    l1_ratio |-> model.l1_ratio[1],
                    rows |-> rows,
                    foreign |-> \/ model.alpha_writer # t
                                \/ model.l1_ratio_writer # t
                                \/ model.warm_start /\ model.coef_writer \notin {0, t}]
       IN  /\ model' = [model EXCEPT
                           !.coef_ = Some(Fitted(model.alpha[1], model.l1_ratio[1], rows)),
                           !.coef_writer = t]
           /\ tasks' = [tasks EXCEPT ![t].pc = "record",
                                     ![t].fit = Some(used)]
    /\ TaskFrame

\* lines 655-657: the predictions of the model, with the coef_ it holds
\* now, on the train and test rows; after the last alpha, line 659: the
\* call returns
TaskRecord(t) ==
    /\ tasks[t].pc = "record"
    /\ tasks' = [tasks EXCEPT
                    ![t].eta = Append(@, model.coef_[1]),
                    ![t].fit = None,
                    ![t].i = @ + 1,
                    ![t].pc = IF tasks[t].i < Len(tasks[t].alphas)
                              THEN "set_alpha" ELSE "done"]
    /\ UNCHANGED model
    /\ TaskFrame

\* line 872, once Parallel has returned every result: xcoefs_path is not a
\* name of the function or of the module
FitCollect ==
    /\ fit_pc = "running"
    /\ \A t \in DOMAIN tasks : tasks[t].pc = "done"
    /\ fit_outcome' = Some(Raised("NameError"))
    /\ fit_pc' = "raised"
    /\ UNCHANGED <<fitInputs, cross_validation, model, tasks, gradient_calls,
                   lossVars, proxVars, baseVars, pathVars, irlsVars>>

FitNext ==
    \/ Construct
    \/ FitPrepare
    \/ FitDispatch
    \/ \E t \in DOMAIN tasks : TaskBegin(t)
    \/ \E t \in DOMAIN tasks : TaskSetAlpha(t)
    \/ \E t \in DOMAIN tasks : TaskFit(t)
    \/ \E t \in DOMAIN tasks : TaskRecord(t)
    \/ FitCollect

SpecFit == FitInit /\ [][FitNext]_vars

\* ---------------------------------------------------- claims on cv.py: fit
AllRows == 1..Len(X_grid)
Constructed == cross_validation # <<>>
FitEnded == Constructed /\ fit_outcome # None
FitReturned == FitEnded /\ fit_outcome[1].kind = "CrossValidation"
AllTasksDone == tasks # <<>> /\ \A t \in DOMAIN tasks : tasks[t].pc = "done"

NegativeAlpha ==
    alphas # None /\ \E i \in DOMAIN alphas[1] : RLess(alphas[1][i], RInt(0))
InconsistentLengths == y_length # Len(X_grid)
ValidConfiguration == Constructed /\ ~NegativeAlpha /\ ~InconsistentLengths

\* C12 as stated: with the same X, y, cv, random_state and alphas, the
\* selection does not depend on the scheduling of the worker threads: the
\* path results it is computed from are, for every task and alpha, those of
\* the model fitted with that task's l1_ratio and that alpha.
C12_SelectionIndependentOfSchedule ==
    AllTasksDone =>
        \A t \in DOMAIN tasks : \A i \in DOMAIN tasks[t].eta :
            tasks[t].eta[i] = Fitted(tasks[t].alphas[i], tasks[t].l1_ratio, AllRows)

\* The first position, rows first, that holds the maximum of a score table.
IsMaximum(table, i, j) ==
    \A k \in DOMAIN table : \A l \in DOMAIN table[k] : RLeq(table[k][l], table[i][j])
FirstMaximum(table) ==
    CHOOSE pos \in {<<i, j>> : i \in DOMAIN table, j \in DOMAIN table[1]} :
        /\ IsMaximum(table, pos[1], pos[2])
        /\ \A i \in DOMAIN table : \A j \in DOMAIN table[i] :
              IsMaximum(table, i, j) =>
                  pos[1] < i \/ (pos[1] = i /\ pos[2] <= j)

\* C13 as stated: fit on a valid configuration ends with alpha_ and
\* l1_ratio_ set to the pair that holds the maximum of the score table, the
\* first such pair in iteration order.
C13_SelectsFirstMaximum ==
    (FitEnded /\ ValidConfiguration) =>
        /\ FitReturned
        /\ LET self == fit_outcome[1].value
               best == FirstMaximum(self.pl_path_)
           IN  /\ self.l1_ratio_ = self.l1_ratios[best[1]]
               /\ self.alpha_ = path_alphas[1][best[1]][best[2]]

\* C14 as stated: fit on a valid configuration returns with coef_ and
\* intercept_ taken from the model re-fitted on every row with the selected
\* alpha and l1_ratio, which alpha_ and l1_ratio_ hold.
C14_ExposesRefitOnAllRows ==
    (FitEnded /\ ValidConfiguration) =>
        /\ FitReturned
        /\ LET self == fit_outcome[1].value
           IN  /\ model.alpha = Some(self.alpha_)
               /\ model.l1_ratio = Some(self.l1_ratio_)
               /\ model.coef_ = Some(Fitted(self.alpha_, self.l1_ratio_, AllRows))
               /\ self.coef_ = model.coef_[1]
               /\ HasAttr(self, "intercept_")

\* C15 as stated: an unusable cv raises ValueError in the constructor; a
\* negative alpha or X and y of different lengths make fit raise before any
\* gradient evaluation, dispatched task or model fit, and without setting
\* alpha_, l1_ratio_ or coef_.
C15_FailFast ==
    /\ (fit_pc # "new" /\ l1_ratios.kind = "list"
            /\ cv.kind \notin {"None", "Integral", "Iterable", "splitter"}) =>
           (~Constructed /\ fit_outcome = Some(Raised("ValueError")))
    /\ (Constructed /\ (NegativeAlpha \/ InconsistentLengths) /\ fit_pc # "constructed") =>
           /\ fit_pc = "raised"
           /\ gradient_calls = 0
           /\ tasks = <<>>
           /\ model = <<>> \/ model.coef_ = None
           /\ \A name \in {"alpha_", "l1_ratio_", "coef_"} : ~HasAttr(cross_validation, name)

\* C16 as stated: under every interleaving, a fit inside a task uses that
\* task's alpha and l1_ratio, and a task reads from the model only what it
\* wrote itself (alpha, l1_ratio, the warm-start coef_, the coef_ predicted
\* from).
C16_TasksShareNoMutableState ==
    \A t \in DOMAIN tasks :
        /\ tasks[t].fit # None =>
              /\ tasks[t].fit[1].alpha = tasks[t].alphas[tasks[t].i]
              /\ tasks[t].fit[1].l1_ratio = tasks[t].l1_ratio
              /\ ~tasks[t].fit[1].foreign
        /\ tasks[t].pc = "record" => model.coef_writer = t

\* C17 as stated: every fit of the task of a fold (train, test) is a fit on
\* the rows of train alone; no row of test enters it.
C17_FitsOnTrainRowsOnly ==
    \A t \in DOMAIN tasks :
        tasks[t].fit # None =>
            /\ tasks[t].fit[1].rows = tasks[t].train
            /\ tasks[t].fit[1].rows \cap tasks[t].test = {}

\* the mean of a sequence of rationals
RECURSIVE RSumSeq(_)
RSumSeq(s) == IF Len(s) = 0 THEN RInt(0) ELSE RAdd(s[1], RSumSeq(Tail(s)))
RMean(s) == RDiv(RSumSeq(s), RInt(Len(s)))

\* C18 as stated: fit on a valid configuration ends with a score table
\* pl_path_ that has one row per l1_ratio and, in row i, one entry per alpha
\* of the grid of l1_ratio i.
C18_ScoreTableIndexedByRatioAndAlpha ==
    (FitEnded /\ ValidConfiguration) =>
        /\ HasAttr(cross_validation, "pl_path_")
        /\ Len(cross_validation.pl_path_) = Len(cross_validation.l1_ratios)
        /\ \A i \in DOMAIN cross_validation.pl_path_ :
              Len(cross_validation.pl_path_[i]) = Len(path_alphas[1][i])

\* C19 as stated: with a scoring method other than "linear_predictor", fit
\* on a valid configuration ends with, at (l1_ratio i, alpha j), the mean
\* over the folds of l1_ratio i of the fold likelihoods at alpha j.
C19_ScoreIsMeanOverFolds ==
    (FitEnded /\ ValidConfiguration /\ cv_score_method # "linear_predictor") =>
        /\ HasAttr(cross_validation, "fold_likelihoods")
        /\ HasAttr(cross_validation, "pl_path_")
        /\ \A i \in DOMAIN cross_validation.pl_path_ :
              \A j \in DOMAIN cross_validation.pl_path_[i] :
                  cross_validation.pl_path_[i][j] =
                      RMean([k \in 1..cross_validation.cv |->
                                cross_validation.fold_likelihoods[i][k][j]])

\* ------------------------------------------ cv.py: regularisation_path
MaxIrlsIter == 2
MaxRefits == 2

Features == 1..Len(X_grid[1])

\* A fit is named by the alpha index, the IRLS index and its number within
\* the iteration: <<i, q, n>>.  Coefficients carry the fit that produced
\* them (None for np.zeros); a linear predictor is named by the
\* coefficients it was computed from.
CoefficientsOf(value, fit) == [value |-> value, fit |-> fit]
ZeroCoefficients == CoefficientsOf("zeros", None)

\* Number of the fit that optimiser.coef_ comes from, within the iteration.
FitNumber == optimiser.coef_[1][3]

\* Which of the three bodies an IRLS iteration runs (lines 213, 253, 312).
IrlsBranch_StrongNeverTaken(i, q) ==
    IF i + q > 1 \/ i + q = 1 THEN "working" ELSE "all"

IrlsBranch(i, q) ==
    IF i + q > 0 /\ i + q < 2 THEN "strong"
    ELSE IF i + q > 1 THEN "working"
    ELSE "all"

PathInit ==
    /\ LossIdle
    /\ ProxIdle
    /\ BaseIdle
    /\ FitIdle
    /\ IrlsIdle
    /\ gradient = <<1>>
    /\ hessian = <<1>>
    /\ \E p \in 1..MaxGridFeatures :
          X_grid \in {<<[j \in 1..p |-> v]>> : v \in GridFeatureValues}
    /\ n_alphas \in 1..MaxAlphas
    /\ alphas \in {None} \cup {Some(a) : a \in SeqsUpTo(AlphaValues, MaxAlphas)}
    \* n_alphas is read only where _alpha_grid fills the grid with the
    \* resolution, and X only where the alphas are not supplied
    /\ (alphas # None \/ X_grid[1][1] # 0) => n_alphas = 1
    /\ alphas # None => X_grid[1][1] = 1
    /\ path_alphas = None
    /\ n_irls_iter \in 1..MaxIrlsIter
    /\ path_pc = "new"
    /\ path_i = 0
    /\ path_q = 0
    /\ steps = <<>>
    /\ working_set = {}
    /\ strong_set = {}
    /\ kkt_violated = {}
    /\ beta_previous = None
    /\ beta_new = None
    /\ optimiser = None
    /\ eta_previous = None
    /\ eta_final = None
    /\ eta_new = None
    /\ kkt_eta = None
    /\ checked = {}
    /\ coefs = <<>>
    /\ train_eta = <<>>
    /\ test_eta = <<>>

pathInputs == <<gradient, hessian, X_grid, n_alphas, alphas, n_irls_iter>>
pathOthers == <<lossVars, proxVars, baseVars, fitVars, irlsVars>>
pathOutputs == <<coefs, train_eta, test_eta>>

\* lines 133-164: the alphas, zero coefficients and predictor, an empty
\* screener, the optimiser
PathBegin ==
    /\ path_pc = "new"
    /\ path_alphas' = Some(PathAlphas(X_grid, gradient, hessian, n_alphas, alphas))
    /\ eta_previous' = Some(ZeroCoefficients)
    /\ beta_previous' = Some(ZeroCoefficients)
    /\ optimiser' = [alpha |-> None, coef_ |-> None]
    /\ path_pc' = "alpha"
    /\ UNCHANGED <<pathInputs, path_i, path_q, steps, working_set, strong_set,
                   kkt_violated, beta_new, eta_final, eta_new, kkt_eta, checked,
                   pathOutputs, pathOthers>>

\* lines 165-170: the next alpha, its first IRLS iteration; the screener is
\* the one created before the loop
StartAlpha_ResetsWorkingSet ==
    /\ path_pc = "alpha"
    /\ path_i < Len(path_alphas[1])
    /\ optimiser' = [optimiser EXCEPT !.alpha = Some(path_alphas[1][path_i + 1])]
    /\ working_set' = {}
    /\ path_q' = 0
    /\ path_pc' = "reweight"
    /\ UNCHANGED <<pathInputs, path_alphas, path_i, steps, strong_set,
                   kkt_violated, beta_previous, beta_new, eta_previous, eta_final,
                   eta_new, kkt_eta, checked, pathOutputs, pathOthers>>

StartAlpha ==
    /\ path_pc = "alpha"
    /\ path_i < Len(path_alphas[1])
    /\ optimiser' = [optimiser EXCEPT !.alpha = Some(path_alphas[1][path_i + 1])]
    /\ path_q' = 0
    /\ path_pc' = "reweight"
    /\ UNCHANGED <<pathInputs, path_alphas, path_i, steps, working_set, strong_set,
                   kkt_violated, beta_previous, beta_new, eta_previous, eta_final,
                   eta_new, kkt_eta, checked, pathOutputs, pathOthers>>

\* lines 172-212: gradient and hessian at the current predictor, the IRLS
\* weights, X_irls and y_irls
Reweight ==
    /\ path_pc = "reweight"
    /\ steps' = <<"REWEIGHT">>
    /\ path_pc' = CASE IrlsBranch(path_i, path_q) = "strong" -> "screen"
                    [] IrlsBranch(path_i, path_q) = "working" -> "fit_working"
                    [] OTHER -> "fit_all"
    /\ kkt_violated' = {}
    /\ checked' = {}
    /\ eta_new' = None
    /\ kkt_eta' = None
    /\ UNCHANGED <<pathInputs, path_alphas, path_i, path_q, working_set, strong_set,
                   beta_previous, beta_new, optimiser, eta_previous, eta_final,
                   pathOutputs, pathOthers>>

\* lines 313-319: the fit on every column; beta_new = optimiser.coef_,
\* eta_final from it; the active variables join the working set
FitAll ==
    /\ path_pc = "fit_all"
    /\ \E active \in SUBSET Features :
          LET fitted == CoefficientsOf(IF active = {} THEN "zeros" ELSE "nonzero",
                                     Some(<<path_i, path_q, 1>>))
          IN  /\ beta_new' = Some(fitted)
              /\ eta_final' = Some(fitted)
              /\ working_set' = working_set \cup active
    /\ optimiser' = [optimiser EXCEPT !.coef_ = Some(<<path_i, path_q, 1>>)]
    /\ steps' = Append(steps, "FIT")
    /\ path_pc' = "accept"
    /\ UNCHANGED <<pathInputs, path_alphas, path_i, path_q, strong_set, kkt_violated,
                   beta_previous, eta_previous, eta_new, kkt_eta, checked,
                   pathOutputs, pathOthers>>

\* lines 214-220 and 261-267: strong_screener.compute_strong_set; in the
\* branch of line 253 eta_new is then computed from optimiser.coef_ (268-270)
ComputeStrongSet ==
    /\ path_pc = "screen"
    /\ strong_set' \in SUBSET Features
    /\ steps' = Append(steps, "SCREEN")
    /\ IF IrlsBranch(path_i, path_q) = "strong"
       THEN /\ path_pc' = "fit_strong"
            /\ UNCHANGED eta_new
       ELSE /\ path_pc' = "check_strong"
            /\ eta_new' = optimiser.coef_
    /\ UNCHANGED <<pathInputs, path_alphas, path_i, path_q, working_set, kkt_violated,
                   beta_previous, beta_new, optimiser, eta_previous, eta_final,
                   kkt_eta, checked, pathOutputs, pathOthers>>

\* lines 222-231: the fit on the columns of the strong set, which then joins
\* the working set; eta_new from optimiser.coef_
FitStrongSet ==
    /\ path_pc = "fit_strong"
    /\ working_set' = working_set \cup strong_set
    /\ optimiser' = [optimiser EXCEPT !.coef_ = Some(<<path_i, path_q, 1>>)]
    /\ eta_new' = Some(<<path_i, path_q, 1>>)
    /\ steps' = Append(steps, "FIT")
    /\ path_pc' = "check_all"
    /\ UNCHANGED <<pathInputs, path_alphas, path_i, path_q, strong_set, kkt_violated,
                   beta_previous, beta_new, eta_previous, eta_final, kkt_eta,
                   checked, pathOutputs, pathOthers>>

\* lines 254-259: the fit on the columns of the working set, warm-started
FitWorkingSet ==
    /\ path_pc = "fit_working"
    /\ optimiser' = [optimiser EXCEPT !.coef_ = Some(<<path_i, path_q, 1>>)]
    /\ steps' = Append(steps, "FIT")
    /\ path_pc' = "screen"
    /\ UNCHANGED <<pathInputs, path_alphas, path_i, path_q, working_set, strong_set,
                   kkt_violated, beta_previous, beta_new, eta_previous, eta_final,
                   eta_new, kkt_eta, checked, pathOutputs, pathOthers>>

\* lines 274-279: strong_screener.check_kkt_strong(eta=eta_new); without
\* violators control goes on to check_kkt_all
CheckKktStrong_SkipsCheckOfAll ==
    /\ path_pc = "check_strong"
    /\ kkt_eta' = eta_new
    /\ \E violators \in SUBSET strong_set :
          /\ kkt_violated' = violators
          /\ path_pc' = IF violators # {} THEN "expand" ELSE "accept"
          /\ checked' = IF violators # {} THEN checked ELSE checked \cup {"strong"}
    /\ steps' = Append(steps, "VERIFY")
    /\ UNCHANGED <<pathInputs, path_alphas, path_i, path_q, working_set, strong_set,
                   beta_previous, beta_new, optimiser, eta_previous, eta_final,
                   eta_new, pathOutputs, pathOthers>>

CheckKktStrong ==
    /\ path_pc = "check_strong"
    /\ kkt_eta' = eta_new
    /\ \E violators \in SUBSET strong_set :
          /\ kkt_violated' = violators
          /\ path_pc' = IF violators # {} THEN "expand" ELSE "check_all"
          /\ checked' = IF violators # {} THEN checked ELSE checked \cup {"strong"}
    /\ steps' = Append(steps, "VERIFY")
    /\ UNCHANGED <<pathInputs, path_alphas, path_i, path_q, working_set, strong_set,
                   beta_previous, beta_new, optimiser, eta_previous, eta_final,
                   eta_new, pathOutputs, pathOthers>>

\* lines 233-239 and 293-299: strong_screener.check_kkt_all(eta=eta_new);
\* with violators the loop goes round again, however often it has done so
CheckKktAll_BoundedRetry ==
    /\ path_pc = "check_all"
    /\ kkt_eta' = eta_new
    /\ \E violators \in SUBSET Features :
          /\ kkt_violated' = violators
          /\ path_pc' = IF violators = {} THEN "accept"
                        ELSE IF FitNumber > 1 THEN "failed" ELSE "expand"
          /\ checked' = IF violators # {} THEN checked ELSE checked \cup {"all"}
    /\ steps' = Append(steps, "VERIFY")
    /\ UNCHANGED <<pathInputs, path_alphas, path_i, path_q, working_set, strong_set,
                   beta_previous, beta_new, optimiser, eta_previous, eta_final,
                   eta_new, pathOutputs, pathOthers>>

CheckKktAll ==
    /\ path_pc = "check_all"
    /\ kkt_eta' = eta_new
    /\ \E violators \in SUBSET Features :
          /\ kkt_violated' = violators
          /\ path_pc' = IF violators # {} THEN "expand" ELSE "accept"
          /\ checked' = IF violators # {} THEN checked ELSE checked \cup {"all"}
    /\ steps' = Append(steps, "VERIFY")
    /\ UNCHANGED <<pathInputs, path_alphas, path_i, path_q, working_set, strong_set,
                   beta_previous, beta_new, optimiser, eta_previous, eta_final,
                   eta_new, pathOutputs, pathOthers>>

\* lines 242-245, 281-285, 302-305: the violators join the working set
ExpandWorkingSet ==
    /\ path_pc = "expand"
    /\ working_set' = working_set \cup kkt_violated
    /\ checked' = {}
    /\ steps' = Append(steps, "EXPAND")
    /\ path_pc' = "refit"
    /\ UNCHANGED <<pathInputs, path_alphas, path_i, path_q, strong_set, kkt_violated,
                   beta_previous, beta_new, optimiser, eta_previous, eta_final,
                   eta_new, kkt_eta, pathOutputs, pathOthers>>

\* lines 246-250, 286-291, 306-310: the fit on the enlarged working set,
\* then back to the head of the while loop; eta_new is not assigned.  The
\* program has no bound on the number of refits; the model follows the loop
\* for MaxRefits of them.
Refit ==
    /\ path_pc = "refit"
    /\ FitNumber <= MaxRefits
    /\ optimiser' = [optimiser EXCEPT !.coef_ = Some(<<path_i, path_q, FitNumber + 1>>)]
    /\ steps' = Append(steps, "FIT")
    /\ path_pc' = IF IrlsBranch(path_i, path_q) = "strong" THEN "check_all"
                  ELSE "check_strong"
    /\ UNCHANGED <<pathInputs, path_alphas, path_i, path_q, working_set, strong_set,
                   kkt_violated, beta_previous, beta_new, eta_previous, eta_final,
                   eta_new, kkt_eta, checked, pathOutputs, pathOthers>>

\* lines 322-339: the iteration's result is taken, beta_updated = beta_new
Accept ==
    /\ path_pc = "accept"
    /\ steps' = Append(steps, "ACCEPT")
    /\ path_pc' = "converge"
    /\ UNCHANGED <<pathInputs, path_alphas, path_i, path_q, working_set, strong_set,
                   kkt_violated, beta_previous, beta_new, optimiser, eta_previous,
                   eta_final, eta_new, kkt_eta, checked, pathOutputs, pathOthers>>

\* lines 342-363: max |beta_previous - beta_updated| < 0.001; then
\* eta_previous = eta_final, beta_previous = beta_updated, and either the
\* next IRLS iteration, or column i of coefs, train_eta and test_eta is
\* stored and the next alpha follows
Converge ==
    /\ path_pc = "converge"
    /\ beta_previous' = beta_new
    /\ eta_previous' = eta_final
    /\ steps' = <<>>
    /\ IF beta_previous[1].value = beta_new[1].value \/ path_q + 1 >= n_irls_iter
       THEN /\ coefs' = Append(coefs, beta_new[1])
            /\ train_eta' = Append(train_eta, eta_final[1])
            /\ test_eta' = Append(test_eta, beta_new[1])
            /\ path_i' = path_i + 1
            /\ path_pc' = "alpha"
            /\ UNCHANGED path_q
       ELSE /\ path_q' = path_q + 1
            /\ path_pc' = "reweight"
            /\ UNCHANGED <<path_i, pathOutputs>>
    /\ UNCHANGED <<pathInputs, path_alphas, working_set, strong_set, kkt_violated,
                   beta_new, optimiser, eta_final, eta_new, kkt_eta, checked,
                   pathOthers>>

\* line 365: return train_eta, test_eta
PathReturn ==
    /\ path_pc = "alpha"
    /\ path_i >= Len(path_alphas[1])
    /\ path_pc' = "returned"
    /\ UNCHANGED <<pathInputs, path_alphas, path_i, path_q, steps, working_set,
                   strong_set, kkt_violated, beta_previous, beta_new, optimiser,
                   eta_previous, eta_final, eta_new, kkt_eta, checked, pathOutputs,
                   pathOthers>>

PathNext ==
    \/ PathBegin
    \/ StartAlpha
    \/ Reweight
    \/ FitAll
    \/ ComputeStrongSet
    \/ FitStrongSet
    \/ FitWorkingSet
    \/ CheckKktStrong
    \/ CheckKktAll
    \/ ExpandWorkingSet
    \/ Refit
    \/ Accept
    \/ Converge
    \/ PathReturn

SpecPath == PathInit /\ [][PathNext]_vars

\* ------------------------------------------ regularisation_path: order of steps
StepsBeginWith(order) ==
    \A j \in 1..Len(steps) : j <= Len(order) => steps[j] = order[j]

\* After an EXPAND the next step is FIT and the one after it VERIFY.
ExpandReturnsToFit ==
    \A j \in 1..Len(steps) :
        steps[j] = "EXPAND" =>
            /\ j + 1 <= Len(steps) => steps[j + 1] = "FIT"
            /\ j + 2 <= Len(steps) => steps[j + 2] = "VERIFY"

\* Every KKT check has a fit before it.
VerifyComesAfterFit ==
    \A j \in 1..Len(steps) :
        steps[j] = "VERIFY" => \E k \in 1..(j - 1) : steps[k] = "FIT"

\* C20 as stated: in every IRLS iteration of regularisation_path the steps
\* occur in the order REWEIGHT, SCREEN, FIT, VERIFY (compute_strong_set
\* before the fit, the KKT checks after the fit), and after an EXPAND control
\* returns to FIT and then to VERIFY.
C20_StepsInClaimedOrder ==
    /\ StepsBeginWith(<<"REWEIGHT", "SCREEN", "FIT", "VERIFY">>)
    /\ VerifyComesAfterFit
    /\ ExpandReturnsToFit

\* C20, amended: the order of an IRLS iteration depends on i + q, the index
\* of the alpha plus the index of the iteration.  With i + q = 0 the steps
\* are REWEIGHT, FIT, ACCEPT, with no SCREEN and no VERIFY; with i + q = 1
\* they begin REWEIGHT, SCREEN, FIT, VERIFY; with i + q > 1 they begin
\* REWEIGHT, FIT, SCREEN, VERIFY, the fit on the working set running before
\* compute_strong_set.  In all of them the KKT checks come after a fit, after
\* an EXPAND control returns to FIT and then to VERIFY, and ACCEPT comes last.
C20_StepsInOrderOfBranch ==
    /\ path_i + path_q = 0 =>
          /\ StepsBeginWith(<<"REWEIGHT", "FIT", "ACCEPT">>)
          /\ Len(steps) <= 3
    /\ path_i + path_q = 1 =>
          StepsBeginWith(<<"REWEIGHT", "SCREEN", "FIT", "VERIFY">>)
    /\ path_i + path_q > 1 =>
          StepsBeginWith(<<"REWEIGHT", "FIT", "SCREEN", "VERIFY">>)
    /\ VerifyComesAfterFit
    /\ ExpandReturnsToFit
    /\ \A j \in 1..Len(steps) :
          steps[j] = "ACCEPT" =>
              /\ j = Len(steps)
              /\ path_i + path_q > 0 => steps[j - 1] = "VERIFY"

\* An iteration with i + q > 1 that expanded its working set and was accepted.
C20_Witness ==
    /\ path_i + path_q > 1
    /\ \E j \in 1..Len(steps) : steps[j] = "EXPAND"
    /\ Len(steps) > 0
    /\ steps[Len(steps)] = "ACCEPT"

\* ------------------------------------------ regularisation_path: the KKT loop
LastStep == IF steps = <<>> THEN "" ELSE steps[Len(steps)]

LoopExited == LastStep = "ACCEPT" /\ path_i + path_q > 0

\* C21 as stated: whenever an active-set convergence loop exits (ACCEPT),
\* both check_kkt_strong and check_kkt_all have been run for the current
\* working set in that IRLS iteration and reported no violation, for
\* i + q = 1 as for the later iterations.
C21_BothChecksPassedAtExit ==
    LoopExited => checked = {"strong", "all"}

\* C21, amended: when the loop of an iteration with i + q > 1 exits, both
\* check_kkt_strong and check_kkt_all have been run since the working set
\* last changed and reported no violation; when the loop of the iteration
\* with i + q = 1 exits, check_kkt_all has, and check_kkt_strong has not
\* been run at all.
C21_ChecksPassedAtExitByBranch ==
    LoopExited =>
        /\ path_i + path_q = 1 => checked = {"all"}
        /\ path_i + path_q > 1 => checked = {"strong", "all"}

\* The loop of the first screened iteration exits after an expansion.
C21_Witness ==
    /\ LoopExited
    /\ path_i + path_q = 1
    /\ \E j \in 1..Len(steps) : steps[j] = "EXPAND"
    /\ checked = {"all"}

\* C22: every KKT check is evaluated at the current fit: the eta handed to
\* check_kkt_strong / check_kkt_all is the linear predictor of the
\* coefficients optimiser.coef_ holds at the time of the check, after a
\* refit as before it.
C22_ChecksUseCurrentFit ==
    LastStep = "VERIFY" => kkt_eta = optimiser.coef_

\* C23: the refinement loops have no iteration cap: a check that reports
\* violators is followed by an expansion and a refit and the check is made
\* again, however many refits the iteration has made; the loop is left only
\* through a check without violators, never through an error.
C23_LoopHasNoIterationCap ==
    /\ (LastStep = "VERIFY" /\ kkt_violated # {}) => path_pc = "expand"
    /\ LastStep = "EXPAND" => path_pc = "refit"
    /\ (LastStep = "FIT" /\ path_i + path_q > 0 /\ FitNumber > 1) =>
          path_pc \in {"check_strong", "check_all"}

\* Violators are reported again after as many refits as the model follows.
C23_Witness ==
    /\ path_pc = "expand"
    /\ FitNumber = MaxRefits + 1
    /\ kkt_violated # {}

\* C24: the working set never loses a member: every step of
\* regularisation_path leaves it as it is or adds indices to it, the step to
\* the next alpha included.
C24_WorkingSetOnlyGrows == [][working_set \subseteq working_set']_vars

\* A later alpha starts with the working set the earlier ones left.
C24_Witness ==
    /\ path_pc = "reweight"
    /\ path_i > 0
    /\ path_q = 0
    /\ working_set # {}

\* C25: in every IRLS iteration the convergence test compares the previous
\* iterate with the coefficients produced by that iteration's own fit:
\* where the test is made, beta_new holds the coefficients of the fit that
\* optimiser.coef_ comes from.
C25_ConvergenceTestUsesOwnFit ==
    path_pc = "converge" => beta_new[1].fit = optimiser.coef_

\* C26: column i of train_eta and of test_eta is computed from the
\* coefficients of the last fit performed for alpha i: where the column has
\* just been stored, its coefficients are those of optimiser.coef_.
C26_ColumnsComeFromLastFit ==
    (path_pc = "alpha" /\ path_i > 0) =>
        /\ train_eta[path_i].fit = optimiser.coef_
        /\ test_eta[path_i].fit = optimiser.coef_

\* ------------------------------ cv.py: regularisation_path, the IRLS data
MaxIrlsRows == 2
MaxIrlsSteps == 3

IrlsGradientValues == {0, 1}
IrlsHessianValues == {0, 1, 2}
IrlsFeatureValues == {1, 2}
IrlsBetaValues == {0, 1}

\* The real sqrt(w) * v, for rationals w > 0 and v.
Scaled(w, v) == [w |-> w, v |-> v]

SameReal(a, b) ==
    IF a.v[1] = 0 \/ b.v[1] = 0
    THEN a.v[1] = 0 /\ b.v[1] = 0
    ELSE /\ (a.v[1] > 0) = (b.v[1] > 0)
         /\ RMul(a.w, RMul(a.v, a.v)) = RMul(b.w, RMul(b.v, b.v))

\* line 180: hessian_mask = (hessian > 0)
HessianMask(h) == [r \in 1..Len(h) |-> h[r] > 0]

\* s[mask]: the entries of s at the rows the mask keeps, in order
RECURSIVE MaskedUpTo(_, _, _)
MaskedUpTo(s, m, k) ==
    IF k = 0 THEN <<>>
    ELSE IF m[k] THEN Append(MaskedUpTo(s, m, k - 1), s[k])
    ELSE MaskedUpTo(s, m, k - 1)

Masked(s, m) == MaskedUpTo(s, m, Len(s))

\* lines 184-186: weights = hessian[mask] * (np.sum(mask) / np.sum(weights))
Weights(h) ==
    LET kept == Masked(h, HessianMask(h))
        total == RSumSeq([r \in 1..Len(kept) |-> RInt(kept[r])])
    IN  [r \in 1..Len(kept) |-> RDiv(RMul(RInt(kept[r]), RInt(Len(kept))), total)]

\* lines 179-183: inverse_hessian, 0 where the hessian is 0
InverseHessian(h) ==
    [r \in 1..Len(h) |-> IF h[r] > 0 THEN <<1, h[r]>> ELSE RInt(0)]

\* (eta_previous - inverse_hessian * gradient)[hessian_mask]
PseudoResponse(eta, g, h) ==
    Masked([r \in 1..Len(h) |->
               RSub(RInt(eta[r]), RMul(InverseHessian(h)[r], RInt(g[r])))],
           HessianMask(h))

\* lines 193-197 and 205-211: X[hessian_mask, :] * weights_sqrt_matrix and
\* weights_sqrt * (eta_previous - inverse_hessian * gradient)[hessian_mask]
RecomputedX(Xm, h) ==
    LET rows == Masked(Xm, HessianMask(h))
    IN  [r \in 1..Len(rows) |->
            [j \in 1..Len(rows[r]) |-> Scaled(Weights(h)[r], RInt(rows[r][j]))]]

RecomputedY(eta, g, h) ==
    LET z == PseudoResponse(eta, g, h)
    IN  [r \in 1..Len(z) |-> Scaled(Weights(h)[r], z[r])]

\* lines 200-203: X_irls * weights_sqrt_matrix / weights_sqrt_matrix_old and
\* y_irls * weights_sqrt_matrix[:, 0] / weights_sqrt_matrix_old[:, 0]
Rescaled(s, new, old) == Scaled(RDiv(RMul(s.w, new), old), s.v)

RescaledX(Xi, new, old) ==
    [r \in 1..Len(Xi) |-> [j \in 1..Len(Xi[r]) |-> Rescaled(Xi[r][j], new[r], old[r])]]

RescaledY(yi, new, old) ==
    [r \in 1..Len(yi) |-> Rescaled(yi[r], new[r], old[r])]

IrlsInit ==
    /\ LossIdle
    /\ ProxIdle
    /\ BaseIdle
    /\ FitIdle
    /\ \E n \in 1..MaxIrlsRows :
          /\ X_grid \in [1..n -> [1..1 -> IrlsFeatureValues]]
          /\ eta_previous = [r \in 1..n |-> 0]
    /\ gradient = <<>>
    /\ hessian = <<>>
    /\ n_alphas = 1
    /\ alphas = None
    /\ path_alphas = None
    /\ n_irls_iter = 0
    /\ path_pc = "idle"
    /\ path_i = 0
    /\ path_q = 0
    /\ steps = <<>>
    /\ working_set = {}
    /\ strong_set = {}
    /\ kkt_violated = {}
    /\ beta_previous = None
    /\ beta_new = None
    /\ optimiser = None
    /\ eta_final = None
    /\ eta_new = None
    /\ kkt_eta = None
    /\ checked = {}
    /\ coefs = <<>>
    /\ train_eta = <<>>
    /\ test_eta = <<>>
    /\ X_irls = <<>>
    /\ y_irls = <<>>
    /\ hessian_mask_old = None
    /\ weights_old = None
    /\ gradient_at = <<>>
    /\ irls_pc = "gradient"
    /\ irls_n = 0
    /\ irls_outcome = None

irlsOthers == <<lossVars, proxVars, baseVars, fitVars, n_alphas, alphas, path_alphas,
                n_irls_iter, path_pc, path_i, path_q, steps, working_set, strong_set,
                kkt_violated, beta_previous, beta_new, optimiser, eta_new, kkt_eta,
                checked, coefs, train_eta, test_eta>>

\* lines 174-178: gradient, hessian = model.gradient(eta_previous, time,
\* event); the model's gradient is a function of the linear predictor
IrlsGradient ==
    /\ irls_pc = "gradient"
    /\ IF eta_previous \in DOMAIN gradient_at
       THEN /\ gradient' = gradient_at[eta_previous].gradient
            /\ hessian' = gradient_at[eta_previous].hessian
            /\ UNCHANGED gradient_at
       ELSE \E g \in [1..Len(X_grid) -> IrlsGradientValues],
               h \in [1..Len(X_grid) -> IrlsHessianValues] :
                /\ gradient' = g
                /\ hessian' = h
                /\ gradient_at' =
                      [e \in DOMAIN gradient_at \cup {eta_previous} |->
                          IF e = eta_previous THEN [gradient |-> g, hessian |-> h]
                          ELSE gradient_at[e]]
    /\ irls_pc' = "reweight"
    /\ UNCHANGED <<X_grid, eta_previous, eta_final, X_irls, y_irls, hessian_mask_old,
                   weights_old, irls_n, irls_outcome, irlsOthers>>

\* lines 179-211: the mask, the weights, X_irls and y_irls: computed in the
\* first step (i + q < 1), rescaled where the mask is the previous one,
\* computed again where it is not
IrlsReweight ==
    /\ irls_pc = "reweight"
    /\ IF irls_n = 0
       THEN /\ X_irls' = RecomputedX(X_grid, hessian)
            /\ y_irls' = RecomputedY(eta_previous, gradient, hessian)
       ELSE IF HessianMask(hessian) = hessian_mask_old[1]
       THEN /\ X_irls' = RescaledX(X_irls, Weights(hessian), weights_old[1])
            /\ y_irls' = RescaledY(y_irls, Weights(hessian), weights_old[1])
       ELSE /\ X_irls' = RecomputedX(X_grid, hessian)
            /\ y_irls' = RecomputedY(eta_previous, gradient, hessian)
    /\ irls_pc' = "fit"
    /\ UNCHANGED <<X_grid, gradient, hessian, eta_previous, eta_final,
                   hessian_mask_old, weights_old, gradient_at, irls_n, irls_outcome,
                   irlsOthers>>

\* lines 212-339: the fit on X_irls, y_irls (with the screening around it
\* after the first step).  Only the first step assigns eta_final, as
\* X[:, active_variables] @ beta_new[active_variables].  What the
\* optimiser does with zero rows is its own affair: it may raise.
IrlsFit ==
    /\ irls_pc = "fit"
    /\ \/ /\ irls_n = 0
          /\ \E b \in IrlsBetaValues :
                eta_final' = Some([r \in 1..Len(X_grid) |-> X_grid[r][1] * b])
          /\ irls_pc' = "update"
          /\ UNCHANGED irls_outcome
       \/ /\ irls_n > 0
          /\ irls_pc' = "update"
          /\ UNCHANGED <<eta_final, irls_outcome>>
       \/ /\ X_irls = <<>>
          /\ irls_pc' = "raised"
          /\ irls_outcome' = Some(Raised("ValueError"))
          /\ UNCHANGED eta_final
    /\ UNCHANGED <<X_grid, gradient, hessian, eta_previous, X_irls, y_irls,
                   hessian_mask_old, weights_old, gradient_at, irls_n, irlsOthers>>

\* lines 342-357: in both arms of the convergence test eta_previous =
\* eta_final, weights_sqrt_matrix_old = weights_sqrt_matrix and
\* hessian_mask_old = hessian_mask
IrlsUpdate ==
    /\ irls_pc = "update"
    /\ eta_previous' = eta_final[1]
    /\ hessian_mask_old' = Some(HessianMask(hessian))
    /\ weights_old' = Some(Weights(hessian))
    /\ irls_n' = irls_n + 1
    /\ IF irls_n + 1 < MaxIrlsSteps
       THEN /\ irls_pc' = "gradient"
            /\ UNCHANGED irls_outcome
       ELSE /\ irls_pc' = "returned"
            /\ irls_outcome' = Some(Outcome("tuple", <<>>))
    /\ UNCHANGED <<X_grid, gradient, hessian, eta_final, X_irls, y_irls, gradient_at,
                   irlsOthers>>

IrlsNext ==
    \/ IrlsGradient
    \/ IrlsReweight
    \/ IrlsFit
    \/ IrlsUpdate

SpecIrls == IrlsInit /\ [][IrlsNext]_vars

\* ------------------------------------------ regularisation_path: IRLS data
SameRealSeq(a, b) ==
    /\ Len(a) = Len(b)
    /\ \A r \in 1..Len(a) : SameReal(a[r], b[r])

\* C27: the cached-mask shortcut is equivalent to recomputation: at every
\* IRLS iteration, whether the mask changed or not, X_irls is
\* sqrt(weight) * X[mask] and y_irls is sqrt(weight) * (eta -
\* gradient/hessian)[mask] for the current eta, gradient and hessian.
C27_ShortcutEqualsRecomputation ==
    irls_pc = "fit" =>
        /\ Len(X_irls) = Len(RecomputedX(X_grid, hessian))
        /\ \A r \in 1..Len(X_irls) :
              SameRealSeq(X_irls[r], RecomputedX(X_grid, hessian)[r])
        /\ SameRealSeq(y_irls, RecomputedY(eta_previous, gradient, hessian))

EmptyMask == hessian # <<>> /\ \A r \in 1..Len(hessian) : hessian[r] = 0

\* C28: an empty Hessian mask is fatal for the alpha: with every Hessian
\* entry zero, regularisation_path stops with an error and goes on neither
\* to the fit nor to the convergence test and the stored predictors.
C28_EmptyMaskIsFatal ==
    EmptyMask => irls_pc \in {"gradient", "reweight", "raised"}

\* ------------------------------------------ loss.py: the running risk set
\* Sample k is the last of its tie block.
ClosesBlock(t, k) == k = Len(t) \/ t[k + 1] > t[k]

\* The first sample of the tie block of sample k.
BlockStart(t, k) == CHOOSE a \in 1..k : t[a] = t[k] /\ \A j \in 1..(a - 1) : t[j] < t[k]

AllCensored(e, a, k) == \A j \in a..k : e[j] = 0

\* Sum of exp(linear_predictor) over the samples a..k.
RECURSIVE HazardOver(_, _, _)
HazardOver(ph, a, k) ==
    IF k < a THEN RInt(0) ELSE RAdd(HazardOver(ph, a, k - 1), ph[k])

\* Sum of exp(linear_predictor) over the samples whose time is >= t[k].
RECURSIVE HazardAtRisk(_, _, _, _)
HazardAtRisk(ph, t, k, j) ==
    IF j = 0 THEN RInt(0)
    ELSE IF t[j] >= t[k] THEN RAdd(HazardAtRisk(ph, t, k, j - 1), ph[j])
    ELSE HazardAtRisk(ph, t, k, j - 1)

\* The likelihood once the contribution of the block closed by sample k has
\* been subtracted (k = 0: before the first block).
BreslowAfterBlock(lp, t, e, k) ==
    LET st == BreslowLoop(lp, t, e, k)
    IN  IF k = 0 THEN LZero
        ELSE LSub(st.likelihood, LScale(st.set_count, Log(st.risk_set_sum)))

EfronAfterBlock(lp, t, e, k) ==
    LET st == EfronLoop(lp, t, e, k)
    IN  IF k = 0 THEN LZero
        ELSE EfronTieTerms(st.likelihood, st.risk_set_sum, st.death_set_count,
                           st.death_set_risk, st.death_set_count)

\* C29: on ascending times, whenever the contribution of a tie block is
\* computed in the Breslow or the Efron recursion, the running risk-set sum
\* is the sum of exp(linear_predictor) over exactly the samples whose time
\* is >= the block's time; a block of censored samples only leaves the
\* likelihood as it was and still has its partial hazards removed from the
\* sum.
C29_RiskSetInvariant ==
    BothLikelihoodsReturned =>
        \A k \in 1..Len(time) :
            ClosesBlock(time, k) =>
                LET ph == PartialHazard(linear_predictor)
                    a == BlockStart(time, k)
                    b == BreslowLoop(linear_predictor, time, event, k)
                    f == EfronLoop(linear_predictor, time, event, k)
                IN  /\ b.risk_set_sum = HazardAtRisk(ph, time, k, Len(time))
                    /\ f.risk_set_sum = HazardAtRisk(ph, time, k, Len(time))
                    /\ AllCensored(event, a, k) =>
                          /\ LEq(BreslowAfterBlock(linear_predictor, time, event, k),
                                 BreslowAfterBlock(linear_predictor, time, event, a - 1))
                          /\ LEq(EfronAfterBlock(linear_predictor, time, event, k),
                                 EfronAfterBlock(linear_predictor, time, event, a - 1))
                          /\ k < Len(time) =>
                                /\ BreslowLoop(linear_predictor, time, event, k + 1).risk_set_sum
                                      = RSub(b.risk_set_sum, HazardOver(ph, a, k))
                                /\ EfronLoop(linear_predictor, time, event, k + 1).risk_set_sum
                                      = RSub(f.risk_set_sum, HazardOver(ph, a, k))

\* Both likelihoods were evaluated on data with a tied, all-censored block
\* that is followed by a death.
C29_Witness ==
    /\ BothLikelihoodsReturned
    /\ \E k \in 2..(Len(time) - 1) :
          /\ ClosesBlock(time, k)
          /\ BlockStart(time, k) < k
          /\ AllCensored(event, BlockStart(time, k), k)
          /\ event[k + 1] = 1

\* ------------------------------------------ CrossValidation.fit: names read
\* C30: CrossValidation.fit never reads an unassigned variable: on a valid
\* configuration, after the parallel dispatch has returned, the aggregation,
\* the selection and the refit read only names assigned earlier in the
\* call, so fit does not end with NameError or UnboundLocalError.
C30_ReadsOnlyAssignedNames ==
    (FitEnded /\ ValidConfiguration) =>
        fit_outcome[1].kind \notin {"NameError", "UnboundLocalError"}

====
